---- MODULE Spec2Model ----
(***************************************************************************)
(* Model of the Python hashing / signing core of accumulate_client:        *)
(*   canonjson.py         canonical JSON encoder                           *)
(*   protocol/hashing.py  transaction hashing                              *)
(*   crypto/ed25519.py    Ed25519 key pairs, signing, verification         *)
(*                                                                         *)
(* A Python str is a sequence of Unicode code points, a bytes object a     *)
(* sequence of numbers in 0..255.  A Python object is a record of its type *)
(* name t and a payload field named after the type; a dict's payload is    *)
(* the sequence of its entries [k |-> key, v |-> value] in insertion order.*)
(***************************************************************************)
EXTENDS Integers, Sequences, FiniteSets, TLC

(***************************************************************************)
(* Characters and Python built-ins                                         *)
(***************************************************************************)
Ch ==
  [ quote |-> 34, backslash |-> 92, slash |-> 47, comma |-> 44, colon |-> 58,
    lbrace |-> 123, rbrace |-> 125, lbracket |-> 91, rbracket |-> 93,
    minus |-> 45, plus |-> 43, dot |-> 46, zero |-> 48, nine |-> 57,
    equals |-> 61, space |-> 32, bs |-> 8, tab |-> 9, nl |-> 10, ff |-> 12,
    cr |-> 13, b |-> 98, f |-> 102, n |-> 110, r |-> 114, t |-> 116, u |-> 117 ]

\* The literals of the JSON grammar and of Python's str().
Lit ==
  [ true |-> <<116, 114, 117, 101>>, false |-> <<102, 97, 108, 115, 101>>,
    null |-> <<110, 117, 108, 108>>,
    pyTrue |-> <<84, 114, 117, 101>>, pyFalse |-> <<70, 97, 108, 115, 101>>,
    pyNone |-> <<78, 111, 110, 101>> ]

\* Names the hashing code looks up in its arguments.
Name ==
  [ type |-> <<116, 121, 112, 101>>, entry |-> <<101, 110, 116, 114, 121>>,
    data |-> <<100, 97, 116, 97>>, header |-> <<104, 101, 97, 100, 101, 114>>,
    body |-> <<98, 111, 100, 121>>,
    WriteData |-> <<87, 114, 105, 116, 101, 68, 97, 116, 97>>,
    WriteDataTo |-> <<87, 114, 105, 116, 101, 68, 97, 116, 97, 84, 111>>,
    SyntheticWriteData |->
      <<83, 121, 110, 116, 104, 101, 116, 105, 99, 87, 114, 105, 116, 101, 68, 97, 116, 97>>,
    SystemWriteData |->
      <<83, 121, 115, 116, 101, 109, 87, 114, 105, 116, 101, 68, 97, 116, 97>> ]

\* Constructors of Python objects.
PyNone == [t |-> "NoneType", none |-> 0]
PyBool(b) == [t |-> "bool", b |-> b]
PyInt(n) == [t |-> "int", i |-> n]
\* A Python int has no bound.  One of more than nine digits, beyond the
\* integers of the checker, is held by its decimal digits.
PyLong(digits) == [t |-> "int", digits |-> digits]
\* A float is held in tenths: PyFloat(31) is 3.1, PyFloat(10) is 1.0.
PyFloat(tenths) == [t |-> "float", f |-> tenths]
PyStr(s) == [t |-> "str", s |-> s]
PyBytes(bs) == [t |-> "bytes", bs |-> bs]
PyList(xs) == [t |-> "list", items |-> xs]
PyTuple(xs) == [t |-> "tuple", items |-> xs]
PyDict(entries) == [t |-> "dict", entries |-> entries]
\* An object of any other class; repr is what str() returns for it.
PyObject(repr) == [t |-> "object", repr |-> repr]
Entry(key, value) == [k |-> key, v |-> value]

\* Decimal digits of a natural number.
RECURSIVE Digits(_)
Digits(n) ==
  IF n < 10 THEN <<Ch.zero + n>> ELSE Digits(n \div 10) \o <<Ch.zero + (n % 10)>>

\* int.__repr__
int_repr(n) == IF n < 0 THEN <<Ch.minus>> \o Digits(-n) ELSE Digits(n)

\* int.__repr__ of an int object
int_str(x) == IF "i" \in DOMAIN x THEN int_repr(x.i) ELSE x.digits

\* Mutant: an integral float is written without its fraction (1.0 as 1).
float_repr_integral_as_int(tenths) ==
  LET a == IF tenths < 0 THEN -tenths ELSE tenths
  IN  (IF tenths < 0 THEN <<Ch.minus>> ELSE <<>>)
        \o Digits(a \div 10)
        \o (IF a % 10 = 0 THEN <<>> ELSE <<Ch.dot>> \o Digits(a % 10))

\* float.__repr__ for the floats of the model (tenths): 3.1, 1.0, -0.5
float_repr(tenths) ==
  LET a == IF tenths < 0 THEN -tenths ELSE tenths
  IN  (IF tenths < 0 THEN <<Ch.minus>> ELSE <<>>)
        \o Digits(a \div 10) \o <<Ch.dot>> \o Digits(a % 10)

\* Python's str(x)
str_(x) ==
  CASE x.t = "str" -> x.s
    [] x.t = "int" -> int_str(x)
    [] x.t = "float" -> float_repr(x.f)
    [] x.t = "bool" -> IF x.b THEN Lit.pyTrue ELSE Lit.pyFalse
    [] x.t = "NoneType" -> Lit.pyNone
    [] x.t = "object" -> x.repr

\* Python's str < str: lexicographic by code point.
RECURSIVE str_lt(_, _)
str_lt(a, b) ==
  IF b = <<>> THEN FALSE
  ELSE IF a = <<>> THEN TRUE
  ELSE IF Head(a) # Head(b) THEN Head(a) < Head(b)
  ELSE str_lt(Tail(a), Tail(b))

\* Mutant: the keys are left in insertion order.
sorted_by_str_unsorted(keys) == keys

\* sorted(keys, key=lambda k: str(k)): stable, ascending by str(k).
RECURSIVE sorted_by_str(_)
sorted_by_str(keys) ==
  IF keys = <<>> THEN <<>>
  ELSE LET rest == sorted_by_str(SubSeq(keys, 1, Len(keys) - 1))
           last == keys[Len(keys)]
           \* stable: last goes after every element whose key is <= its key
           n == Cardinality({i \in 1..Len(rest) : ~str_lt(str_(last), str_(rest[i]))})
       IN  SubSeq(rest, 1, n) \o <<last>> \o SubSeq(rest, n + 1, Len(rest))

\* dict: value.keys(), key in d, d[key], d[key] = value
dict_keys(d) == [i \in 1..Len(d.entries) |-> d.entries[i].k]
dict_has(d, key) == \E i \in 1..Len(d.entries) : d.entries[i].k = key
dict_get(d, key) == d.entries[CHOOSE i \in 1..Len(d.entries) : d.entries[i].k = key].v
dict_set(d, key, value) ==
  IF dict_has(d, key)
  THEN PyDict([i \in 1..Len(d.entries) |->
                 IF d.entries[i].k = key THEN Entry(key, value) ELSE d.entries[i]])
  ELSE PyDict(Append(d.entries, Entry(key, value)))
\* del d[key]
dict_del(d, key) ==
  LET i == CHOOSE j \in 1..Len(d.entries) : d.entries[j].k = key
  IN  PyDict(SubSeq(d.entries, 1, i - 1) \o SubSeq(d.entries, i + 1, Len(d.entries)))

(***************************************************************************)
(* base64.b64encode                                                        *)
(***************************************************************************)
\* The RFC 4648 alphabet: A-Z a-z 0-9 + /
b64char(i) ==
  IF i < 26 THEN 65 + i
  ELSE IF i < 52 THEN 97 + (i - 26)
  ELSE IF i < 62 THEN 48 + (i - 52)
  ELSE IF i = 62 THEN Ch.plus ELSE Ch.slash

\* Mutant: the final group is written without its '=' padding.
RECURSIVE b64encode_unpadded(_)
b64encode_unpadded(bs) ==
  IF bs = <<>> THEN <<>>
  ELSE IF Len(bs) = 1 THEN
    <<b64char(bs[1] \div 4), b64char((bs[1] % 4) * 16)>>
  ELSE IF Len(bs) = 2 THEN
    <<b64char(bs[1] \div 4), b64char((bs[1] % 4) * 16 + bs[2] \div 16),
      b64char((bs[2] % 16) * 4)>>
  ELSE
    <<b64char(bs[1] \div 4), b64char((bs[1] % 4) * 16 + bs[2] \div 16),
      b64char((bs[2] % 16) * 4 + bs[3] \div 64), b64char(bs[3] % 64)>>
      \o b64encode_unpadded(SubSeq(bs, 4, Len(bs)))

RECURSIVE b64encode(_)
b64encode(bs) ==
  IF bs = <<>> THEN <<>>
  ELSE IF Len(bs) = 1 THEN
    <<b64char(bs[1] \div 4), b64char((bs[1] % 4) * 16), Ch.equals, Ch.equals>>
  ELSE IF Len(bs) = 2 THEN
    <<b64char(bs[1] \div 4), b64char((bs[1] % 4) * 16 + bs[2] \div 16),
      b64char((bs[2] % 16) * 4), Ch.equals>>
  ELSE
    <<b64char(bs[1] \div 4), b64char((bs[1] % 4) * 16 + bs[2] \div 16),
      b64char((bs[2] % 16) * 4 + bs[3] \div 64), b64char(bs[3] % 64)>>
      \o b64encode(SubSeq(bs, 4, Len(bs)))

(***************************************************************************)
(* json.encoder: the encoding of a str (ensure_ascii=False)                *)
(***************************************************************************)
HexDigit(d) == IF d < 10 THEN Ch.zero + d ELSE 97 + (d - 10)

\* json.encoder.py_encode_basestring: the replacement of one character
escape_char(c) ==
  IF c = Ch.quote THEN <<Ch.backslash, Ch.quote>>
  ELSE IF c = Ch.backslash THEN <<Ch.backslash, Ch.backslash>>
  ELSE IF c = Ch.nl THEN <<Ch.backslash, Ch.n>>
  ELSE IF c = Ch.cr THEN <<Ch.backslash, Ch.r>>
  ELSE IF c = Ch.tab THEN <<Ch.backslash, Ch.t>>
  ELSE IF c = Ch.ff THEN <<Ch.backslash, Ch.f>>
  ELSE IF c = Ch.bs THEN <<Ch.backslash, Ch.b>>
  ELSE IF c < 32 THEN
    <<Ch.backslash, Ch.u, Ch.zero, Ch.zero, HexDigit(c \div 16), HexDigit(c % 16)>>
  ELSE <<c>>

RECURSIVE escape_chars(_)
escape_chars(s) ==
  IF s = <<>> THEN <<>> ELSE escape_char(Head(s)) \o escape_chars(Tail(s))

encode_basestring(s) == <<Ch.quote>> \o escape_chars(s) \o <<Ch.quote>>

(***************************************************************************)
(* canonjson.py                                                            *)
(***************************************************************************)
RECURSIVE _canonicalize(_)
RECURSIVE canonicalize_items(_, _, _)
RECURSIVE canonicalize_list(_)

\* for key in sorted_keys: canonicalized_dict[str(key)] = _canonicalize(value[key])
canonicalize_items(value, sorted_keys, canonicalized_dict) ==
  IF sorted_keys = <<>> THEN canonicalized_dict
  ELSE canonicalize_items(value, Tail(sorted_keys),
         dict_set(canonicalized_dict, PyStr(str_(Head(sorted_keys))),
                  _canonicalize(dict_get(value, Head(sorted_keys)))))

\* Mutant: the items are collected back to front.
RECURSIVE canonicalize_list_reversed(_)
canonicalize_list_reversed(items) ==
  IF items = <<>> THEN <<>>
  ELSE canonicalize_list_reversed(Tail(items)) \o <<_canonicalize(Head(items))>>

\* [_canonicalize(item) for item in value]
canonicalize_list(items) ==
  IF items = <<>> THEN <<>>
  ELSE <<_canonicalize(Head(items))>> \o canonicalize_list(Tail(items))

\* Mutant: a str is JSON-encoded here already, and again by json.dumps.
_canonicalize_double_encoded(value) ==
  IF value.t = "dict" THEN
    canonicalize_items(value, sorted_by_str(dict_keys(value)), PyDict(<<>>))
  ELSE IF value.t \in {"list", "tuple"} THEN
    PyList(canonicalize_list(value.items))
  ELSE IF value.t = "bytes" THEN
    PyStr(b64encode(value.bs))
  ELSE IF value.t = "str" THEN
    PyStr(encode_basestring(value.s))
  ELSE IF value.t \in {"int", "float", "bool", "NoneType"} THEN
    value
  ELSE
    PyStr(str_(value))

_canonicalize(value) ==
  IF value.t = "dict" THEN
    canonicalize_items(value, sorted_by_str(dict_keys(value)), PyDict(<<>>))
  ELSE IF value.t \in {"list", "tuple"} THEN
    PyList(canonicalize_list(value.items))
  ELSE IF value.t = "bytes" THEN
    PyStr(b64encode(value.bs))
  ELSE IF value.t \in {"str", "int", "float", "bool", "NoneType"} THEN
    value
  ELSE
    PyStr(str_(value))

(***************************************************************************)
(* json.dumps(obj, separators=(',', ':'), ensure_ascii=False)              *)
(***************************************************************************)
RECURSIVE json_dumps(_)
RECURSIVE json_dumps_list(_)
RECURSIVE json_dumps_dict(_)

\* the elements of a list, joined by the item separator ','
json_dumps_list(items) ==
  IF items = <<>> THEN <<>>
  ELSE IF Len(items) = 1 THEN json_dumps(items[1])
  ELSE json_dumps(Head(items)) \o <<Ch.comma>> \o json_dumps_list(Tail(items))

\* the members of a dict in its own order (sort_keys=False), key separator ':'
json_dumps_dict(entries) ==
  IF entries = <<>> THEN <<>>
  ELSE LET member == encode_basestring(str_(Head(entries).k)) \o <<Ch.colon>>
                       \o json_dumps(Head(entries).v)
       IN  IF Len(entries) = 1 THEN member
           ELSE member \o <<Ch.comma>> \o json_dumps_dict(Tail(entries))

json_dumps(o) ==
  CASE o.t = "str" -> encode_basestring(o.s)
    [] o.t = "NoneType" -> Lit.null
    [] o.t = "bool" -> IF o.b THEN Lit.true ELSE Lit.false
    [] o.t = "int" -> int_str(o)
    [] o.t = "float" -> float_repr(o.f)
    [] o.t \in {"list", "tuple"} ->
         <<Ch.lbracket>> \o json_dumps_list(o.items) \o <<Ch.rbracket>>
    [] o.t = "dict" -> <<Ch.lbrace>> \o json_dumps_dict(o.entries) \o <<Ch.rbrace>>

\* canonjson.dumps_canonical
dumps_canonical(obj) == json_dumps(_canonicalize(obj))

(***************************************************************************)
(* json.loads(s)                                                           *)
(* A scan returns [ok, val, end]: end is the index after what was read.    *)
(***************************************************************************)
At(s, i) == IF i >= 1 /\ i <= Len(s) THEN s[i] ELSE -1
Fail == [ok |-> FALSE, val |-> PyNone, end |-> 0]
Got(val, end) == [ok |-> TRUE, val |-> val, end |-> end]
IsDigit(c) == c >= Ch.zero /\ c <= Ch.nine
HexVal(c) ==
  IF IsDigit(c) THEN c - Ch.zero
  ELSE IF c >= 97 /\ c <= 102 THEN c - 97 + 10
  ELSE IF c >= 65 /\ c <= 70 THEN c - 65 + 10
  ELSE -1

\* json.decoder.WHITESPACE: the index of the first character at or after i
\* that is not one of ' \t\n\r'
RECURSIVE skip_ws(_, _)
skip_ws(s, i) ==
  IF At(s, i) \in {Ch.space, Ch.tab, Ch.nl, Ch.cr} THEN skip_ws(s, i + 1) ELSE i

\* s[i:i+Len(word)] == word
StartsWith(s, i, word) ==
  /\ i + Len(word) - 1 <= Len(s)
  /\ SubSeq(s, i, i + Len(word) - 1) = word

\* the value of the four hex digits at i, or -1
Hex4(s, i) ==
  IF \A j \in 0..3 : HexVal(At(s, i + j)) >= 0
  THEN HexVal(s[i]) * 4096 + HexVal(s[i + 1]) * 256 + HexVal(s[i + 2]) * 16
         + HexVal(s[i + 3])
  ELSE -1

\* json.decoder.py_scanstring (strict): i is the index after the opening quote
RECURSIVE scanstring(_, _, _)
scanstring(s, i, acc) ==
  LET c == At(s, i) IN
  IF c = -1 THEN Fail
  ELSE IF c = Ch.quote THEN Got(PyStr(acc), i + 1)
  ELSE IF c < 32 THEN Fail
  ELSE IF c # Ch.backslash THEN scanstring(s, i + 1, Append(acc, c))
  ELSE LET e == At(s, i + 1) IN
    IF e \in {Ch.quote, Ch.backslash, Ch.slash}
      THEN scanstring(s, i + 2, Append(acc, e))
    ELSE IF e = Ch.b THEN scanstring(s, i + 2, Append(acc, Ch.bs))
    ELSE IF e = Ch.f THEN scanstring(s, i + 2, Append(acc, Ch.ff))
    ELSE IF e = Ch.n THEN scanstring(s, i + 2, Append(acc, Ch.nl))
    ELSE IF e = Ch.r THEN scanstring(s, i + 2, Append(acc, Ch.cr))
    ELSE IF e = Ch.t THEN scanstring(s, i + 2, Append(acc, Ch.tab))
    ELSE IF e = Ch.u THEN
      LET hi == Hex4(s, i + 2)
          lo == IF StartsWith(s, i + 6, <<Ch.backslash, Ch.u>>)
                THEN Hex4(s, i + 8) ELSE -1
      IN  IF hi = -1 THEN Fail
          ELSE IF hi >= 55296 /\ hi <= 56319 /\ lo >= 56320 /\ lo <= 57343
            THEN scanstring(s, i + 12,
                   Append(acc, 65536 + (hi - 55296) * 1024 + (lo - 56320)))
          ELSE scanstring(s, i + 6, Append(acc, hi))
    ELSE Fail

\* the index after the run of digits that starts at i
RECURSIVE skip_digits(_, _)
skip_digits(s, i) == IF IsDigit(At(s, i)) THEN skip_digits(s, i + 1) ELSE i

\* int(s[i:j]) for a run of digits
RECURSIVE digits_value(_, _, _)
digits_value(s, i, j) ==
  IF i >= j THEN 0 ELSE digits_value(s, i, j - 1) * 10 + (s[j - 1] - Ch.zero)

\* json.scanner NUMBER_RE (-?(?:0|[1-9]\d*))(\.\d+)?([eE][-+]?\d+)? at i.
\* A match with a fraction is a float, held in tenths; the floats of the
\* model have one fraction digit, no exponent and at most nine digits before
\* the point, anything else is not read.
match_number(s, i) ==
  LET neg == At(s, i) = Ch.minus
      d0 == IF neg THEN i + 1 ELSE i
      d1 == IF At(s, d0) = Ch.zero THEN d0 + 1 ELSE skip_digits(s, d0)
      int_ == digits_value(s, d0, d1)
      hasfrac == At(s, d1) = Ch.dot /\ IsDigit(At(s, d1 + 1))
      f1 == IF hasfrac THEN skip_digits(s, d1 + 1) ELSE d1
      hasexp == At(s, f1) \in {69, 101}
  IN  IF d1 = d0 THEN Fail
      ELSE IF hasexp \/ f1 > d1 + 2 THEN Fail
      ELSE IF d1 - d0 > 9 THEN
        IF hasfrac THEN Fail ELSE Got(PyLong(SubSeq(s, i, d1 - 1)), d1)
      ELSE IF hasfrac THEN
        Got(PyFloat((IF neg THEN -1 ELSE 1) * (int_ * 10 + (s[d1 + 1] - Ch.zero))), f1)
      ELSE Got(PyInt(IF neg THEN -int_ ELSE int_), d1)

RECURSIVE scan_once(_, _)
RECURSIVE JSONObject(_, _, _)
RECURSIVE JSONArray(_, _, _)

\* json.decoder.JSONObject: i is at a member's opening quote; acc is the dict
\* read so far (a repeated key keeps its place and takes the last value)
JSONObject(s, i, acc) ==
  IF At(s, i) # Ch.quote THEN Fail
  ELSE LET key == scanstring(s, i + 1, <<>>) IN
    IF ~key.ok THEN Fail
    ELSE LET c == skip_ws(s, key.end) IN
      IF At(s, c) # Ch.colon THEN Fail
      ELSE LET value == scan_once(s, skip_ws(s, c + 1)) IN
        IF ~value.ok THEN Fail
        ELSE LET n == skip_ws(s, value.end)
                 pairs == dict_set(acc, key.val, value.val)
             IN  IF At(s, n) = Ch.rbrace THEN Got(pairs, n + 1)
                 ELSE IF At(s, n) = Ch.comma
                   THEN JSONObject(s, skip_ws(s, n + 1), pairs)
                 ELSE Fail

\* json.decoder.JSONArray: i is at an element; acc is the list read so far
JSONArray(s, i, acc) ==
  LET value == scan_once(s, i) IN
  IF ~value.ok THEN Fail
  ELSE LET n == skip_ws(s, value.end)
           values == Append(acc, value.val)
       IN  IF At(s, n) = Ch.rbracket THEN Got(PyList(values), n + 1)
           ELSE IF At(s, n) = Ch.comma THEN JSONArray(s, skip_ws(s, n + 1), values)
           ELSE Fail

\* json.scanner.py_make_scanner._scan_once
scan_once(s, i) ==
  LET c == At(s, i) IN
  IF c = Ch.quote THEN scanstring(s, i + 1, <<>>)
  ELSE IF c = Ch.lbrace THEN
    LET n == skip_ws(s, i + 1) IN
    IF At(s, n) = Ch.rbrace THEN Got(PyDict(<<>>), n + 1)
    ELSE JSONObject(s, n, PyDict(<<>>))
  ELSE IF c = Ch.lbracket THEN
    LET n == skip_ws(s, i + 1) IN
    IF At(s, n) = Ch.rbracket THEN Got(PyList(<<>>), n + 1)
    ELSE JSONArray(s, n, <<>>)
  ELSE IF StartsWith(s, i, Lit.null) THEN Got(PyNone, i + 4)
  ELSE IF StartsWith(s, i, Lit.true) THEN Got(PyBool(TRUE), i + 4)
  ELSE IF StartsWith(s, i, Lit.false) THEN Got(PyBool(FALSE), i + 5)
  ELSE match_number(s, i)

\* json.loads: JSONDecoder.decode; ok is FALSE where it raises JSONDecodeError
json_loads(s) ==
  LET r == scan_once(s, skip_ws(s, 1)) IN
  IF r.ok /\ skip_ws(s, r.end) = Len(s) + 1 THEN r ELSE Fail

\* A function that can raise returns Return(value) or Raise(exception).
Return(val) == [kind |-> "return", val |-> val]
Raise(exc) == [kind |-> "raise", exc |-> exc]
ValueError(msg) == [cls |-> "ValueError", msg |-> msg]
\* the interpreter's own TypeError; its message is not modelled
TypeError == [cls |-> "TypeError", msg |-> <<>>]

\* Mutant: a string is accepted as soon as it parses.
verify_canonical_format_parse_only(canonical_str) ==
  Return(json_loads(canonical_str).ok)

\* canonjson.verify_canonical_format(canonical_str)
verify_canonical_format(canonical_str) ==
  LET parsed == json_loads(canonical_str) IN
  IF ~parsed.ok THEN Return(FALSE)
  ELSE LET recanonical == dumps_canonical(parsed.val)
       IN  Return(canonical_str = recanonical)

(***************************************************************************)
(* hashlib.sha256 and str.encode('utf-8')                                  *)
(***************************************************************************)
DigestSize == 32

\* the UTF-8 encoding of one code point
utf8_char(c) ==
  IF c < 128 THEN <<c>>
  ELSE IF c < 2048 THEN <<192 + (c \div 64), 128 + (c % 64)>>
  ELSE IF c < 65536 THEN
    <<224 + (c \div 4096), 128 + ((c \div 64) % 64), 128 + (c % 64)>>
  ELSE <<240 + (c \div 262144), 128 + ((c \div 4096) % 64),
         128 + ((c \div 64) % 64), 128 + (c % 64)>>

\* str.encode('utf-8') of a string without lone surrogates (the string is
\* split in halves to keep the evaluation shallow)
RECURSIVE encode_utf8(_)
encode_utf8(s) ==
  IF s = <<>> THEN <<>>
  ELSE IF Len(s) = 1 THEN utf8_char(s[1])
  ELSE LET mid == Len(s) \div 2
       IN  encode_utf8(SubSeq(s, 1, mid)) \o encode_utf8(SubSeq(s, mid + 1, Len(s)))

\* hashlib.sha256(data).digest().  SHA-256 itself is not part of the
\* repository; it is stood for by a deterministic, order-sensitive digest of
\* DigestSize bytes: the polynomial checksum
\*   h = 7 * 131^n + (data[1] + 1) * 131^(n-1) + ... + (data[n] + 1)  mod 32003
\* of the data, spread over the digest so that different checksums give
\* different digests.  poly(data, lo, hi) is the checksum of data[lo..hi] and
\* 131^(hi - lo + 1), both mod 32003.
RECURSIVE poly(_, _, _)
poly(data, lo, hi) ==
  IF lo = hi THEN [h |-> data[lo] + 1, m |-> 131]
  ELSE LET mid == (lo + hi) \div 2
           a == poly(data, lo, mid)
           b == poly(data, mid + 1, hi)
       IN  [h |-> (a.h * b.m + b.h) % 32003, m |-> (a.m * b.m) % 32003]

checksum(data) ==
  IF data = <<>> THEN 7
  ELSE LET p == poly(data, 1, Len(data)) IN (7 * p.m + p.h) % 32003

hashlib_sha256(data) ==
  LET h == checksum(data)
  IN  [i \in 1..DigestSize |->
         IF i = 1 THEN h % 256
         ELSE IF i = 2 THEN h \div 256
         ELSE (h * i + i) % 256]

(***************************************************************************)
(* protocol/hashing.py                                                     *)
(***************************************************************************)

\* The texts of the error messages
Msg ==
  [ invalid |-> <<105, 110, 118, 97, 108, 105, 100, 32>>,
    missing_entry |-> <<58, 32, 109, 105, 115, 115, 105, 110, 103, 32, 101, 110, 116, 114, 121>>,
    missing_entry_data |->
      <<58, 32, 109, 105, 115, 115, 105, 110, 103, 32, 101, 110, 116, 114, 121, 32, 100, 97, 116, 97>>,
    missing_header |->
      <<105, 110, 118, 97, 108, 105, 100, 32, 116, 114, 97, 110, 115, 97, 99, 116, 105, 111, 110, 58, 32, 109, 105, 115, 115, 105, 110, 103, 32, 104, 101, 97, 100, 101, 114>>,
    missing_body |->
      <<105, 110, 118, 97, 108, 105, 100, 32, 116, 114, 97, 110, 115, 97, 99, 116, 105, 111, 110, 58, 32, 109, 105, 115, 115, 105, 110, 103, 32, 98, 111, 100, 121>> ]

sha256_bytes(data) == hashlib_sha256(data)

sha256_json(obj) == sha256_bytes(encode_utf8(dumps_canonical(obj)))

hash_transaction_header(header) == sha256_json(header)

\* Python truth value: not x
falsy(x) ==
  CASE x.t = "NoneType" -> TRUE
    [] x.t = "bool" -> ~x.b
    [] x.t = "int" -> "i" \in DOMAIN x /\ x.i = 0
    [] x.t = "float" -> x.f = 0
    [] x.t = "str" -> x.s = <<>>
    [] x.t = "bytes" -> x.bs = <<>>
    [] x.t \in {"list", "tuple"} -> x.items = <<>>
    [] x.t = "dict" -> x.entries = <<>>
    [] x.t = "object" -> FALSE

\* needle in haystack, for two str: substring
Contains(haystack, needle) ==
  \E i \in 1..(Len(haystack) - Len(needle) + 1) :
    SubSeq(haystack, i, i + Len(needle) - 1) = needle

\* Python's `key in container` for a str key: "ok" with the answer, or
\* "TypeError" where the container does not support the test
str_in(key, container) ==
  CASE container.t = "dict" -> [ok |-> TRUE, in |-> dict_has(container, PyStr(key))]
    [] container.t = "str" -> [ok |-> TRUE, in |-> Contains(container.s, key)]
    [] container.t \in {"list", "tuple"} ->
         [ok |-> TRUE,
          in |-> \E i \in 1..Len(container.items) : container.items[i] = PyStr(key)]
    [] OTHER -> [ok |-> FALSE, in |-> FALSE]

\* body.get('type', '')
body_type(body) ==
  IF dict_has(body, PyStr(Name.type)) THEN dict_get(body, PyStr(Name.type))
  ELSE PyStr(<<>>)

\* hash(x) succeeds: a list or a dict is unhashable, a tuple is hashable when
\* its items are
RECURSIVE hashable(_)
hashable(x) ==
  CASE x.t \in {"list", "dict"} -> FALSE
    [] x.t = "tuple" -> \A i \in 1..Len(x.items) : hashable(x.items[i])
    [] OTHER -> TRUE

write_data_types ==
  { PyStr(Name.WriteData), PyStr(Name.WriteDataTo), PyStr(Name.SyntheticWriteData),
    PyStr(Name.SystemWriteData) }

\* Mutant: the two digests are concatenated entry first.
hash_transaction_body_entry_first(body) ==
  LET transaction_type == body_type(body) IN
  IF ~hashable(transaction_type) THEN Raise(TypeError)
  ELSE IF transaction_type \in write_data_types THEN
    IF ~dict_has(body, PyStr(Name.entry)) THEN
      Raise(ValueError(Msg.invalid \o str_(transaction_type) \o Msg.missing_entry))
    ELSE
      LET entry == dict_get(body, PyStr(Name.entry))
          has_data == str_in(Name.data, entry)
      IN  IF falsy(entry) \/ ~has_data.ok \/ ~has_data.in THEN
            Raise(ValueError(Msg.invalid \o str_(transaction_type)
                               \o Msg.missing_entry_data))
          ELSE
            Return(sha256_bytes(sha256_json(entry)
                                  \o sha256_json(dict_del(body, PyStr(Name.entry)))))
  ELSE Return(sha256_json(body))

hash_transaction_body(body) ==
  LET transaction_type == body_type(body) IN
  IF ~hashable(transaction_type) THEN Raise(TypeError)
  ELSE IF transaction_type \in write_data_types THEN
    IF ~dict_has(body, PyStr(Name.entry)) THEN
      Raise(ValueError(Msg.invalid \o str_(transaction_type) \o Msg.missing_entry))
    ELSE
      LET entry == dict_get(body, PyStr(Name.entry))
          has_data == str_in(Name.data, entry)
      IN  IF falsy(entry) THEN
            Raise(ValueError(Msg.invalid \o str_(transaction_type)
                               \o Msg.missing_entry_data))
          ELSE IF ~has_data.ok THEN
            Raise(TypeError)
          ELSE IF ~has_data.in THEN
            Raise(ValueError(Msg.invalid \o str_(transaction_type)
                               \o Msg.missing_entry_data))
          ELSE
            LET body_copy == dict_del(body, PyStr(Name.entry))
                without_entry_hash == sha256_json(body_copy)
                entry_hash == sha256_json(entry)
            IN  Return(sha256_bytes(without_entry_hash \o entry_hash))
  ELSE Return(sha256_json(body))

\* Mutant: only the header and the body are hashed, other keys are dropped.
hash_transaction_header_and_body_only(transaction) ==
  IF ~dict_has(transaction, PyStr(Name.header)) THEN
    Raise(ValueError(Msg.missing_header))
  ELSE IF ~dict_has(transaction, PyStr(Name.body)) THEN
    Raise(ValueError(Msg.missing_body))
  ELSE Return(sha256_json(PyDict(<<
         Entry(PyStr(Name.header), dict_get(transaction, PyStr(Name.header))),
         Entry(PyStr(Name.body), dict_get(transaction, PyStr(Name.body)))>>)))

\* Mutant: the body is validated by hash_transaction_body before the flat hash.
hash_transaction_validating(transaction) ==
  IF ~dict_has(transaction, PyStr(Name.header)) THEN
    Raise(ValueError(Msg.missing_header))
  ELSE IF ~dict_has(transaction, PyStr(Name.body)) THEN
    Raise(ValueError(Msg.missing_body))
  ELSE LET body_hash == hash_transaction_body(dict_get(transaction, PyStr(Name.body)))
       IN  IF body_hash.kind = "raise" THEN body_hash
           ELSE Return(sha256_json(transaction))

hash_transaction(transaction) ==
  IF ~dict_has(transaction, PyStr(Name.header)) THEN
    Raise(ValueError(Msg.missing_header))
  ELSE IF ~dict_has(transaction, PyStr(Name.body)) THEN
    Raise(ValueError(Msg.missing_body))
  ELSE Return(sha256_json(transaction))

hash_transaction_binary_style(transaction) ==
  IF ~dict_has(transaction, PyStr(Name.header)) THEN
    Raise(ValueError(Msg.missing_header))
  ELSE IF ~dict_has(transaction, PyStr(Name.body)) THEN
    Raise(ValueError(Msg.missing_body))
  ELSE
    LET header == dict_get(transaction, PyStr(Name.header))
        body == dict_get(transaction, PyStr(Name.body))
        header_hash == hash_transaction_header(header)
        body_hash == hash_transaction_body(body)
    IN  IF body_hash.kind = "raise" THEN body_hash
        ELSE LET combined == header_hash \o body_hash.val
             IN  Return(sha256_bytes(combined))

\* Mutant: the signing hash is the layered hash.
hash_for_signing_layered(transaction) == hash_transaction_binary_style(transaction)

hash_for_signing(transaction) == hash_transaction(transaction)

create_signature_metadata_hash(signature_metadata) == sha256_json(signature_metadata)

\* Mutant: the transaction digest comes first.
hash_for_ed25519_signing_tx_first(signature_metadata, transaction) ==
  LET sig_md_hash == create_signature_metadata_hash(signature_metadata)
      tx_hash == hash_transaction(transaction)
  IN  IF tx_hash.kind = "raise" THEN tx_hash
      ELSE Return(sha256_bytes(tx_hash.val \o sig_md_hash))

hash_for_ed25519_signing(signature_metadata, transaction) ==
  LET sig_md_hash == create_signature_metadata_hash(signature_metadata)
      tx_hash == hash_transaction(transaction)
  IN  IF tx_hash.kind = "raise" THEN tx_hash
      ELSE Return(sha256_bytes(sig_md_hash \o tx_hash.val))

(***************************************************************************)
(* bytes.fromhex, bytes.hex                                                *)
(***************************************************************************)
\* bytes.fromhex(s): ASCII whitespace between the bytes is skipped; ok is
\* FALSE where it raises ValueError (a character that is no hex digit, an odd
\* number of digits, whitespace inside a byte)
bytes_fromhex(s) ==
  LET idx == SelectSeq([i \in 1..Len(s) |-> i],
                       LAMBDA i : s[i] \notin {Ch.space, Ch.tab, Ch.nl, Ch.cr, 11, Ch.ff})
      n == Len(idx)
  IN  IF /\ n % 2 = 0
         /\ \A k \in 1..n : HexVal(s[idx[k]]) >= 0
         /\ \A k \in 1..n : k % 2 = 1 => idx[k + 1] = idx[k] + 1
      THEN [ok |-> TRUE,
            bs |-> [k \in 1..(n \div 2) |->
                      16 * HexVal(s[idx[2 * k - 1]]) + HexVal(s[idx[2 * k]])]]
      ELSE [ok |-> FALSE, bs |-> <<>>]

\* bytes.hex(): two lower-case hex digits per byte
bytes_hex(bs) ==
  [i \in 1..(2 * Len(bs)) |->
     IF i % 2 = 1 THEN HexDigit(bs[(i + 1) \div 2] \div 16)
     ELSE HexDigit(bs[i \div 2] % 16)]

\* the message of the ValueError bytes.fromhex raises; not modelled
NotHex == <<>>

(***************************************************************************)
(* crypto.py: hashing of canonical JSON                                    *)
(***************************************************************************)
\* canonjson.canonicalize_for_hashing
canonicalize_for_hashing(obj) ==
  LET canonical_str == dumps_canonical(obj) IN encode_utf8(canonical_str)

\* crypto.hash_json
hash_json(obj) ==
  LET canonical_bytes == canonicalize_for_hashing(obj)
  IN  hashlib_sha256(canonical_bytes)

\* crypto.hash_transaction_for_signing
hash_transaction_for_signing(transaction) == Return(hash_json(transaction))

\* crypto.TransactionHasher.hash_for_signing
TransactionHasher_hash_for_signing(transaction) ==
  hash_transaction_for_signing(transaction)

(***************************************************************************)
(* hashing.py: the hex form of the transaction hash and its verification   *)
(***************************************************************************)
\* hashing.hash_transaction_hex
hash_transaction_hex(transaction) ==
  LET digest == hash_transaction(transaction)
  IN  IF digest.kind = "raise" THEN digest ELSE Return(bytes_hex(digest.val))

\* Mutant: a str is compared as it is, without bytes.fromhex.
verify_transaction_hash_undecoded(transaction, expected_hash) ==
  LET computed_hash == hash_transaction(transaction)
  IN  IF computed_hash.kind = "raise" THEN computed_hash
      ELSE IF expected_hash.t = "str" THEN Return(computed_hash.val = expected_hash.s)
      ELSE Return(expected_hash.t = "bytes" /\ computed_hash.val = expected_hash.bs)

\* hashing.verify_transaction_hash
verify_transaction_hash(transaction, expected_hash) ==
  LET computed_hash == hash_transaction(transaction)
  IN  IF computed_hash.kind = "raise" THEN computed_hash
      ELSE IF expected_hash.t = "str" THEN
        LET expected_bytes == bytes_fromhex(expected_hash.s)
        IN  IF ~expected_bytes.ok THEN Raise(ValueError(NotHex))
            ELSE Return(computed_hash.val = expected_bytes.bs)
      ELSE Return(expected_hash.t = "bytes" /\ computed_hash.val = expected_hash.bs)

(***************************************************************************)
(* Ed25519 as the two backends (PyNaCl, cryptography) provide it.  The     *)
(* curve arithmetic is not part of the repository; it is stood for by      *)
(* deterministic functions with the properties the code relies on: a seed  *)
(* has one public key, different seeds have different public keys, and a   *)
(* signature verifies under a public key for a message exactly if it is    *)
(* the signature the key's seed gives for that message.                    *)
(***************************************************************************)
SeedSize == 32
SignatureSize == 64

\* the public key of a seed
ed25519_public(seed) == [i \in 1..SeedSize |-> (seed[i] * 3 + i + 5) % 256]

\* the signature a public key's seed gives for a message
ed25519_signature(public, message) ==
  LET c == checksum(public \o message)
  IN  [i \in 1..SignatureSize |->
         (c * i + (c \div 256) + public[((i - 1) % SeedSize) + 1]) % 256]

\* Ed25519PrivateKey.sign / nacl SigningKey.sign
ed25519_sign(seed, message) == ed25519_signature(ed25519_public(seed), message)

\* Ed25519PublicKey.verify: a signature of any length that is not the valid
\* one raises InvalidSignature (FALSE here)
ed25519_verify(public, signature, message) ==
  signature = ed25519_signature(public, message)

(***************************************************************************)
(* crypto/ed25519.py                                                       *)
(***************************************************************************)
\* Whether `import nacl.signing` succeeded when the module was imported
VARIABLE NACL_AVAILABLE

\* The key objects of the two libraries
SigningKey(seed) == [cls |-> "nacl.signing.SigningKey", seed |-> seed]
Ed25519PrivateKey(seed) == [cls |-> "Ed25519PrivateKey", seed |-> seed]
NoKey == <<>>

\* Ed25519KeyPair.__init__(signing_key, verify_key=None); verify_key is NoKey
\* for None, else the 32 bytes of a nacl VerifyKey
Ed25519KeyPair(signing_key, verify_key) ==
  IF NACL_AVAILABLE THEN
    IF signing_key.cls = "nacl.signing.SigningKey" THEN
      Return([ _signing_key |-> signing_key.seed,
               _verify_key |-> IF verify_key # NoKey THEN verify_key
                               ELSE ed25519_public(signing_key.seed),
               _private_key |-> signing_key.seed,
               _public_key |-> ed25519_public(signing_key.seed) ])
    ELSE Raise(TypeError)
  ELSE
    Return([ _signing_key |-> NoKey, _verify_key |-> NoKey,
             _private_key |-> signing_key.seed,
             _public_key |-> ed25519_public(signing_key.seed) ])

\* "Expected 64 or 32 bytes, got {len(seed_or_key)}"
ExpectedGot(n) ==
  <<69, 120, 112, 101, 99, 116, 101, 100, 32, 54, 52, 32, 111, 114, 32, 51, 50, 32,
    98, 121, 116, 101, 115, 44, 32, 103, 111, 116, 32>> \o Digits(n)

\* Ed25519KeyPair.generate(); seed is the private key that
\* Ed25519PrivateKey.generate() drew
generate(seed) == Ed25519KeyPair(Ed25519PrivateKey(seed), NoKey)

\* Mutant: 64 bytes are read as the public key followed by the seed.
from_seed_or_key_public_first(seed_or_key) ==
  LET decoded == IF seed_or_key.t = "str" THEN bytes_fromhex(seed_or_key.s)
                 ELSE [ok |-> TRUE, bs |-> seed_or_key.bs]
      key == decoded.bs
  IN  IF ~decoded.ok THEN Raise(ValueError(NotHex))
      ELSE IF Len(key) = 64 THEN
        IF NACL_AVAILABLE
        THEN Ed25519KeyPair(SigningKey(SubSeq(key, 33, 64)), SubSeq(key, 1, 32))
        ELSE Ed25519KeyPair(Ed25519PrivateKey(SubSeq(key, 33, 64)), NoKey)
      ELSE IF Len(key) = 32 THEN
        IF NACL_AVAILABLE THEN Ed25519KeyPair(SigningKey(key), NoKey)
        ELSE Ed25519KeyPair(Ed25519PrivateKey(key), NoKey)
      ELSE Raise(ValueError(ExpectedGot(Len(key))))

\* Mutant: a string is taken as its UTF-8 bytes, not decoded from hex.
from_seed_or_key_str_encoded(seed_or_key) ==
  LET key == IF seed_or_key.t = "str" THEN encode_utf8(seed_or_key.s)
             ELSE seed_or_key.bs
  IN  IF Len(key) = 64 THEN
        IF NACL_AVAILABLE
        THEN Ed25519KeyPair(SigningKey(SubSeq(key, 1, 32)), SubSeq(key, 33, 64))
        ELSE Ed25519KeyPair(Ed25519PrivateKey(SubSeq(key, 1, 32)), NoKey)
      ELSE IF Len(key) = 32 THEN
        IF NACL_AVAILABLE THEN Ed25519KeyPair(SigningKey(key), NoKey)
        ELSE Ed25519KeyPair(Ed25519PrivateKey(key), NoKey)
      ELSE Raise(ValueError(ExpectedGot(Len(key))))

\* Mutant: no length check; the first 32 bytes of a longer input are the seed.
from_seed_or_key_truncating(seed_or_key) ==
  LET decoded == IF seed_or_key.t = "str" THEN bytes_fromhex(seed_or_key.s)
                 ELSE [ok |-> TRUE, bs |-> seed_or_key.bs]
      key == decoded.bs
  IN  IF ~decoded.ok THEN Raise(ValueError(NotHex))
      ELSE IF Len(key) < 32 THEN Raise(ValueError(ExpectedGot(Len(key))))
      ELSE IF NACL_AVAILABLE THEN
        Ed25519KeyPair(SigningKey(SubSeq(key, 1, 32)),
                       IF Len(key) = 64 THEN SubSeq(key, 33, 64) ELSE NoKey)
      ELSE Ed25519KeyPair(Ed25519PrivateKey(SubSeq(key, 1, 32)), NoKey)

\* Ed25519KeyPair.from_seed_or_key(seed_or_key)
from_seed_or_key(seed_or_key) ==
  LET decoded == IF seed_or_key.t = "str" THEN bytes_fromhex(seed_or_key.s)
                 ELSE [ok |-> TRUE, bs |-> seed_or_key.bs]
      key == decoded.bs
  IN  IF ~decoded.ok THEN Raise(ValueError(NotHex))
      ELSE IF NACL_AVAILABLE THEN
        IF Len(key) = 64 THEN
          LET public_key == SubSeq(key, 33, Len(key))
              signing_key == SigningKey(SubSeq(key, 1, 32))
              verify_key == public_key
          IN  Ed25519KeyPair(signing_key, verify_key)
        ELSE IF Len(key) = 32 THEN Ed25519KeyPair(SigningKey(key), NoKey)
        ELSE Raise(ValueError(ExpectedGot(Len(key))))
      ELSE
        IF Len(key) = 64 THEN
          Ed25519KeyPair(Ed25519PrivateKey(SubSeq(key, 1, 32)), NoKey)
        ELSE IF Len(key) = 32 THEN Ed25519KeyPair(Ed25519PrivateKey(key), NoKey)
        ELSE Raise(ValueError(ExpectedGot(Len(key))))

\* Ed25519KeyPair.public_key_bytes()
public_key_bytes(self) ==
  IF NACL_AVAILABLE THEN self._verify_key ELSE self._public_key

\* "acc://"
Scheme == <<97, 99, 99, 58, 47, 47>>

\* Mutant: the checksum is taken over the raw 20 bytes, not over their hex.
derive_lite_identity_url_raw_checksum(self) ==
  LET key_hash_20 == SubSeq(hashlib_sha256(public_key_bytes(self)), 1, 20)
      checksum_full == hashlib_sha256(key_hash_20)
  IN  Scheme \o bytes_hex(key_hash_20)
        \o bytes_hex(SubSeq(checksum_full, 29, Len(checksum_full)))

\* Ed25519KeyPair.derive_lite_identity_url()
derive_lite_identity_url(self) ==
  LET public_key == public_key_bytes(self)
      key_hash_full == hashlib_sha256(public_key)
      key_hash_20 == SubSeq(key_hash_full, 1, 20)
      key_str == bytes_hex(key_hash_20)
      checksum_full == hashlib_sha256(encode_utf8(key_str))
      checksum_hex == bytes_hex(SubSeq(checksum_full, 29, Len(checksum_full)))
  IN  Scheme \o key_str \o checksum_hex

\* Ed25519KeyPair.private_key_bytes()
private_key_bytes(self) == self._private_key

\* message.encode('utf-8') for a str message, the bytes themselves otherwise
message_bytes(message) ==
  IF message.t = "str" THEN encode_utf8(message.s) ELSE message.bs

\* Mutant: the SHA-256 digest of the message is signed (Ed25519ph-style).
sign_prehashed(self, message) ==
  ed25519_sign(self._private_key, hashlib_sha256(message_bytes(message)))

\* Ed25519KeyPair.sign(message)
sign(self, message) == ed25519_sign(self._private_key, message_bytes(message))

\* Ed25519KeyPair.verify(message, signature)
verify(self, message, signature) ==
  LET decoded == IF signature.t = "str" THEN bytes_fromhex(signature.s)
                 ELSE [ok |-> TRUE, bs |-> signature.bs]
  IN  IF ~decoded.ok THEN Raise(ValueError(NotHex))
      ELSE Return(ed25519_verify(self._public_key, decoded.bs, message_bytes(message)))

\* Ed25519Signature.verify_signature(public_key, message, signature)
verify_signature(public_key, message, signature) ==
  LET pk == IF public_key.t = "str" THEN bytes_fromhex(public_key.s)
            ELSE [ok |-> TRUE, bs |-> public_key.bs]
      sig == IF signature.t = "str" THEN bytes_fromhex(signature.s)
             ELSE [ok |-> TRUE, bs |-> signature.bs]
  IN  IF ~pk.ok THEN Raise(ValueError(NotHex))
      ELSE IF ~sig.ok THEN Raise(ValueError(NotHex))
      \* Ed25519PublicKey.from_public_bytes raises ValueError inside the try
      ELSE IF Len(pk.bs) # 32 THEN Return(FALSE)
      ELSE Return(ed25519_verify(pk.bs, sig.bs, message_bytes(message)))

(***************************************************************************)
(* Inputs                                                                  *)
(***************************************************************************)
\* Entries per generated dict and items per generated list.
MaxKeys == 2
MaxItems == 2

\* Sequences of at most n elements of S, and those without a repeated element
SeqsUpTo(S, n) == UNION {[1..m -> S] : m \in 0..n}
DistinctSeqs(S, n) ==
  {q \in SeqsUpTo(S, n) : \A i, j \in 1..Len(q) : i # j => q[i] # q[j]}

\* Every dict of at most n entries, string keys from keys, values from vals,
\* in every insertion order
Dicts(keys, vals, n) ==
  UNION { { PyDict([i \in 1..Len(ks) |-> Entry(PyStr(ks[i]), vs[i])]) :
              vs \in [1..Len(ks) -> vals] } : ks \in DistinctSeqs(keys, n) }
Lists(vals, n) == {PyList(q) : q \in SeqsUpTo(vals, n)}

\* Keys: "a", "b", "Z", Greek beta, U+FF21 (in the BMP, above the surrogate
\* range) and U+1F600 (outside the BMP)
KeyStrings == {<<97>>, <<98>>, <<90>>, <<946>>, <<65313>>, <<128512>>}

Scalars ==
  { PyNone, PyBool(TRUE), PyBool(FALSE), PyInt(0), PyInt(42), PyInt(-7),
    PyFloat(31), PyFloat(10), PyFloat(-5),
    PyStr(<<>>), PyStr(<<120>>), PyStr(<<34, 92, 10>>), PyStr(<<1, 946, 128512>>),
    PyBytes(<<>>), PyBytes(<<104>>), PyBytes(<<104, 105>>),
    PyBytes(<<255, 254, 253, 0>>) }

\* Objects outside (dict, list, tuple, bytes, str, int, float, bool, None):
\* a set(), a Decimal('1.5')
Foreign == {PyObject(<<115, 101, 116, 40, 41>>), PyObject(<<49, 46, 53>>)}

Leaves == {PyInt(1), PyStr(<<120>>), PyBytes(<<104>>), PyFloat(31)}
SmallDicts == Dicts({<<98>>, <<97>>}, {PyInt(1), PyStr(<<120>>)}, MaxKeys)
Inner ==
  {d \in SmallDicts : Len(d.entries) # 1}
    \cup { PyList(<<PyDict(<<Entry(PyStr(<<98>>), PyInt(1)), Entry(PyStr(<<97>>), PyInt(2))>>),
                    PyInt(3)>>),
           PyTuple(<<PyInt(2), PyInt(1)>>), PyTuple(<<>>),
           PyList(<<PyBytes(<<1, 2, 3>>), PyBytes(<<255>>)>>),
           PyObject(<<115, 101, 116, 40, 41>>) }

\* The transaction of hashing.py:250-263:
\* {"header": {"principal": "acc://alice.acme/tokens", "timestamp": 1234567890123},
\*  "body": {"type": "send-tokens", "to": [{"url": "acc://bob.acme/tokens", "amount": "1000"}]}}
test_transaction ==
  PyDict(<<
    Entry(PyStr(Name.header),
          PyDict(<<Entry(PyStr(<<112, 114, 105, 110, 99, 105, 112, 97, 108>>),
                         PyStr(<<97, 99, 99, 58, 47, 47, 97, 108, 105, 99, 101, 46, 97, 99, 109, 101, 47, 116, 111, 107, 101, 110, 115>>)),
                   Entry(PyStr(<<116, 105, 109, 101, 115, 116, 97, 109, 112>>),
                         PyLong(<<49, 50, 51, 52, 53, 54, 55, 56, 57, 48, 49, 50, 51>>))>>)),
    Entry(PyStr(Name.body),
          PyDict(<<Entry(PyStr(Name.type),
                         PyStr(<<115, 101, 110, 100, 45, 116, 111, 107, 101, 110, 115>>)),
                   Entry(PyStr(<<116, 111>>),
                         PyList(<<PyDict(<<
                           Entry(PyStr(<<117, 114, 108>>),
                                 PyStr(<<97, 99, 99, 58, 47, 47, 98, 111, 98, 46, 97, 99, 109, 101, 47, 116, 111, 107, 101, 110, 115>>)),
                           Entry(PyStr(<<97, 109, 111, 117, 110, 116>>),
                                 PyStr(<<49, 48, 48, 48>>))>>)>>))>>))>>)

\* The value trees handed to the encoder
Values ==
  Scalars \cup Foreign \cup {test_transaction}
    \cup Dicts(KeyStrings, Leaves, MaxKeys)
    \cup Lists(Leaves \cup Foreign, MaxItems)
    \cup Dicts({<<122>>, <<97>>}, Inner, MaxKeys)
    \cup Lists(Inner, MaxItems)

\* JSON texts, canonical and not, and strings that are no JSON
Texts ==
  {
    <<123, 34, 98, 34, 58, 49, 44, 34, 97, 34, 58, 50, 125>>,
    <<123, 34, 97, 34, 58, 49, 44, 34, 98, 34, 58, 50, 125>>,
    <<123, 34, 97, 34, 58, 32, 49, 125>>,
    <<91, 49, 44, 32, 50, 93>>,
    <<91, 49, 44, 50, 93>>,
    <<49, 46, 48>>,
    <<48, 49>>,
    <<116, 114, 117>>,
    <<>>,
    <<123, 34, 97, 34, 58, 49, 44, 125>>,
    <<34, 92, 117, 48, 48, 54, 49, 34>>,
    <<123, 34, 97, 34, 58, 49, 44, 34, 97, 34, 58, 49, 125>>,
    <<32, 49>>,
    <<110, 117, 108, 108>>,
    <<34, 233, 34>>,
    <<34, 92, 117, 48, 48, 101, 57, 34>>,
    <<123, 34, 97, 34, 58, 91, 123, 34, 122, 34, 58, 49, 44, 34, 98, 34, 58, 50, 125, 93, 125>>,
    <<91, 49, 46, 48, 44, 45, 55, 44, 34, 120, 34, 93>>,
    <<123, 34, 97, 34, 58, 49, 125, 120>>,
    <<91>>,
    <<123, 34, 128512, 34, 58, 49, 44, 34, 65313, 34, 58, 50, 125>>,
    <<123, 34, 65313, 34, 58, 50, 44, 34, 128512, 34, 58, 49, 125>>,
    <<34, 97, 92, 47, 98, 34>>,
    <<45, 48>>,
    <<49, 46, 53>>,
    <<91, 93>>,
    <<123, 125>>,
    <<91, 32, 93>> }

\* Transaction bodies: type, entry and memo, each present or not, in every
\* insertion order
\* The four write-data kinds, "writedata", "send-tokens", 5 and ["WriteData"]
BodyTypes ==
  write_data_types \cup {PyStr(<<119, 114, 105, 116, 101, 100, 97, 116, 97>>), PyStr(<<115, 101, 110, 100, 45, 116, 111, 107, 101, 110, 115>>)}
    \cup {PyInt(5), PyList(<<PyStr(Name.WriteData)>>)}
Entries ==
  { PyNone, PyDict(<<>>), PyList(<<>>), PyStr(<<>>), PyInt(0), PyInt(5), PyBool(TRUE),
    PyDict(<<Entry(PyStr(Name.data), PyStr(<<65, 65, 61, 61>>))>>),
    PyDict(<<Entry(PyStr(<<120>>), PyInt(1)), Entry(PyStr(Name.data), PyBytes(<<0>>))>>),
    PyDict(<<Entry(PyStr(Name.data), PyNone)>>),
    PyDict(<<Entry(PyStr(<<120>>), PyInt(1))>>),
    PyStr(Name.data), PyStr(<<109, 121, 100, 97, 116, 97, 33>>), PyStr(<<97, 98, 99>>),
    PyList(<<PyStr(Name.data)>>), PyList(<<PyStr(<<120>>)>>),
    PyBytes(Name.data) }
Memos == {PyStr(<<109>>)}
FieldValues(key) ==
  CASE key = Name.type -> BodyTypes
    [] key = Name.entry -> Entries
    [] key = <<109>> -> Memos
    [] key = Name.header ->
         {PyDict(<<Entry(PyStr(<<112>>), PyStr(<<97, 99, 99>>)),
                   Entry(PyStr(<<98>>), PyInt(1))>>)}
    [] key = Name.body ->
         { PyDict(<<>>),
           PyDict(<<Entry(PyStr(Name.type), PyStr(<<115, 101, 110, 100, 45, 116, 111, 107, 101, 110, 115>>))>>),
           PyDict(<<Entry(PyStr(Name.type), PyStr(Name.WriteData))>>),
           PyDict(<<Entry(PyStr(Name.type), PyStr(Name.WriteData)),
                    Entry(PyStr(Name.entry),
                          PyDict(<<Entry(PyStr(Name.data), PyStr(<<120>>))>>))>>),
           PyDict(<<Entry(PyStr(Name.type), PyStr(Name.WriteData)),
                    Entry(PyStr(Name.entry), PyInt(5))>>),
           PyDict(<<Entry(PyStr(Name.type), PyList(<<PyStr(Name.WriteData)>>))>>) }
    [] key = <<115>> -> {PyInt(1)}

\* Every dict over some of the keys, in every insertion order, each key with
\* one of its FieldValues
Records(keys) ==
  LET all == UNION {FieldValues(k) : k \in keys} IN
  UNION { { PyDict([i \in 1..Len(ks) |-> Entry(PyStr(ks[i]), vs[i])]) :
              vs \in {f \in [1..Len(ks) -> all] :
                        \A i \in 1..Len(ks) : f[i] \in FieldValues(ks[i])} } :
          ks \in DistinctSeqs(keys, Cardinality(keys)) }

Bodies == Records({Name.type, Name.entry, <<109>>})
\* Transactions: header, body and a further key "s"
Transactions == Records({Name.header, Name.body, <<115>>})
\* str.upper() of a hex string
upper(s) == [i \in 1..Len(s) |-> IF s[i] >= 97 /\ s[i] <= 122 THEN s[i] - 32 ELSE s[i]]

\* Expected hashes for a transaction: its own digest (that of the empty
\* string where it has none) as bytes, as lower-case and as upper-case hex;
\* another digest as bytes and as hex; bytes and strings that are no digest
ExpectedHashes(transaction) ==
  LET computed == hash_transaction(transaction)
      own == IF computed.kind = "return" THEN computed.val ELSE hashlib_sha256(<<>>)
      other == hashlib_sha256(<<1>>)
  IN  { PyBytes(own), PyStr(bytes_hex(own)), PyStr(upper(bytes_hex(own))),
        PyBytes(other), PyStr(bytes_hex(other)),
        PyBytes(<<>>), PyStr(<<>>), PyStr(<<122, 122>>) }

\* Signature metadata
Metadata ==
  { PyDict(<<>>),
    PyDict(<<Entry(PyStr(Name.type), PyStr(<<101, 100>>)),
             Entry(PyStr(<<107>>), PyBytes(<<1, 2>>))>>),
    PyDict(<<Entry(PyStr(<<107>>), PyBytes(<<1, 2>>)),
             Entry(PyStr(Name.type), PyStr(<<101, 100>>))>>),
    PyDict(<<Entry(PyStr(<<118>>), PyInt(1))>>) }

\* Key material: two seeds, their public keys, every 64-byte pairing of
\* these, and byte strings of other lengths
SeedA == [i \in 1..SeedSize |-> i]
SeedB == [i \in 1..SeedSize |-> (200 + 3 * i) % 256]
KeyBlocks == {SeedA, SeedB, ed25519_public(SeedA), ed25519_public(SeedB)}
RawKeys ==
  KeyBlocks \cup {a \o b : a, b \in KeyBlocks}
    \cup { <<>>, SubSeq(SeedA, 1, 31), SeedA \o <<0>>, SubSeq(SeedA \o SeedB, 1, 63),
           SeedA \o SeedB \o <<0>> }
\* Strings bytes.fromhex rejects: "zz", "abc"
BadHex == {<<122, 122>>, <<97, 98, 99>>}
KeyInputs ==
  {PyBytes(k) : k \in RawKeys}
    \cup {PyStr(bytes_hex(k)) :
            k \in {SeedA, SeedA \o ed25519_public(SeedA), SeedB \o SeedA,
                   SubSeq(SeedA, 1, 31)}}
    \cup {PyStr(h) : h \in BadHex}
PublicKeyInputs ==
  { PyBytes(ed25519_public(SeedA)), PyBytes(ed25519_public(SeedB)),
    PyBytes(SubSeq(SeedA, 1, 31)), PyBytes(<<>>),
    PyStr(bytes_hex(ed25519_public(SeedA))), PyStr(<<122, 122>>) }
Messages == {PyBytes(<<>>), PyBytes(<<1, 2>>), PyStr(<<104, 105>>), PyStr(<<946>>)}

\* Signature arguments made from a valid signature: itself, with one byte
\* changed, of other lengths, as a hex string, and strings that are not hex
SignatureArgs(valid) ==
  { PyBytes(valid),
    PyBytes([valid EXCEPT ![SignatureSize] = (valid[SignatureSize] + 1) % 256]),
    PyBytes(SubSeq(valid, 1, SignatureSize - 1)), PyBytes(valid \o <<0>>), PyBytes(<<>>),
    PyStr(bytes_hex(valid)), PyStr(bytes_hex(SubSeq(valid, 1, 2))) }
    \cup {PyStr(h) : h \in BadHex}

(***************************************************************************)
(* State.  The library keeps no state of its own beyond NACL_AVAILABLE:    *)
(* the state is what the caller holds (input, and keypair once it has      *)
(* built one), the call it has made and the call's outcome.                *)
(***************************************************************************)
VARIABLES input, keypair, call, outcome

\* For calls made by several threads at once: the dict objects the threads
\* can reach, by reference, and each thread's position and local variables
VARIABLES heap, threads

vars == <<NACL_AVAILABLE, input, keypair, call, outcome, heap, threads>>
NoKeyPair == [none |-> TRUE]

NoCall == [op |-> "none", args |-> <<>>]

Inputs ==
  {[kind |-> "value", x |-> v] : v \in Values}
    \cup {[kind |-> "body", body |-> b] : b \in Bodies}
    \cup {[kind |-> "transaction", transaction |-> tx] : tx \in Transactions}
    \cup {[kind |-> "signing", signature_metadata |-> m, transaction |-> tx] :
            m \in Metadata, tx \in Transactions}
    \cup {[kind |-> "key", seed_or_key |-> k] : k \in KeyInputs}
    \cup {[kind |-> "public_key", public_key |-> k] : k \in PublicKeyInputs}
    \cup {[kind |-> "text", canonical_str |-> s] : s \in Texts}
    \cup {[kind |-> "none"]}

Init ==
  /\ NACL_AVAILABLE \in BOOLEAN
  /\ input \in Inputs
  /\ keypair = NoKeyPair
  /\ call = NoCall
  /\ outcome = [kind |-> "none"]
  /\ heap = <<>>
  /\ threads = <<>>

\* canonjson.dumps_canonical(obj)
DumpsCanonical ==
  /\ call = NoCall
  /\ input.kind = "value"
  /\ call' = [op |-> "dumps_canonical", args |-> <<input.x>>]
  /\ outcome' = Return(dumps_canonical(input.x))
  /\ UNCHANGED <<NACL_AVAILABLE, input, keypair, heap, threads>>

\* canonjson.verify_canonical_format(canonical_str), on a text or on the
\* output of dumps_canonical for a value
VerifyCanonicalFormat ==
  /\ call = NoCall
  /\ input.kind \in {"text", "value"}
  /\ LET canonical_str == IF input.kind = "text" THEN input.canonical_str
                          ELSE dumps_canonical(input.x)
     IN  /\ call' = [op |-> "verify_canonical_format", args |-> <<canonical_str>>]
         /\ outcome' = verify_canonical_format(canonical_str)
  /\ UNCHANGED <<NACL_AVAILABLE, input, keypair, heap, threads>>

\* hashing.sha256_json(obj)
Sha256Json ==
  /\ call = NoCall
  /\ input.kind = "value"
  /\ call' = [op |-> "sha256_json", args |-> <<input.x>>]
  /\ outcome' = Return(sha256_json(input.x))
  /\ UNCHANGED <<NACL_AVAILABLE, input, keypair, heap, threads>>

\* hashing.hash_transaction_body(body)
HashTransactionBody ==
  /\ call = NoCall
  /\ input.kind = "body"
  /\ call' = [op |-> "hash_transaction_body", args |-> <<input.body>>]
  /\ outcome' = hash_transaction_body(input.body)
  /\ UNCHANGED <<NACL_AVAILABLE, input, keypair, heap, threads>>

\* hashing.hash_transaction(transaction)
HashTransaction ==
  /\ call = NoCall
  /\ input.kind = "transaction"
  /\ call' = [op |-> "hash_transaction", args |-> <<input.transaction>>]
  /\ outcome' = hash_transaction(input.transaction)
  /\ UNCHANGED <<NACL_AVAILABLE, input, keypair, heap, threads>>

\* hashing.hash_transaction_binary_style(transaction)
HashTransactionBinaryStyle ==
  /\ call = NoCall
  /\ input.kind = "transaction"
  /\ call' = [op |-> "hash_transaction_binary_style", args |-> <<input.transaction>>]
  /\ outcome' = hash_transaction_binary_style(input.transaction)
  /\ UNCHANGED <<NACL_AVAILABLE, input, keypair, heap, threads>>

\* hashing.hash_for_signing(transaction)
HashForSigning ==
  /\ call = NoCall
  /\ input.kind = "transaction"
  /\ call' = [op |-> "hash_for_signing", args |-> <<input.transaction>>]
  /\ outcome' = hash_for_signing(input.transaction)
  /\ UNCHANGED <<NACL_AVAILABLE, input, keypair, heap, threads>>

\* hashing.hash_for_ed25519_signing(signature_metadata, transaction)
HashForEd25519Signing ==
  /\ call = NoCall
  /\ input.kind = "signing"
  /\ call' = [op |-> "hash_for_ed25519_signing",
               args |-> <<input.signature_metadata, input.transaction>>]
  /\ outcome' = hash_for_ed25519_signing(input.signature_metadata, input.transaction)
  /\ UNCHANGED <<NACL_AVAILABLE, input, keypair, heap, threads>>

\* hashing.hash_transaction_hex(transaction)
HashTransactionHex ==
  /\ call = NoCall
  /\ input.kind = "transaction"
  /\ call' = [op |-> "hash_transaction_hex", args |-> <<input.transaction>>]
  /\ outcome' = hash_transaction_hex(input.transaction)
  /\ UNCHANGED <<NACL_AVAILABLE, input, keypair, heap, threads>>

\* hashing.verify_transaction_hash(transaction, expected_hash)
VerifyTransactionHash ==
  /\ call = NoCall
  /\ input.kind = "transaction"
  /\ \E expected_hash \in ExpectedHashes(input.transaction) :
       /\ call' = [op |-> "verify_transaction_hash",
                   args |-> <<input.transaction, expected_hash>>]
       /\ outcome' = verify_transaction_hash(input.transaction, expected_hash)
  /\ UNCHANGED <<NACL_AVAILABLE, input, keypair, heap, threads>>

\* crypto.hash_transaction_for_signing(transaction)
HashTransactionForSigning ==
  /\ call = NoCall
  /\ input.kind = "transaction"
  /\ call' = [op |-> "hash_transaction_for_signing", args |-> <<input.transaction>>]
  /\ outcome' = hash_transaction_for_signing(input.transaction)
  /\ UNCHANGED <<NACL_AVAILABLE, input, keypair, heap, threads>>

\* crypto.TransactionHasher.hash_for_signing(transaction)
TransactionHasherHashForSigning ==
  /\ call = NoCall
  /\ input.kind = "transaction"
  /\ call' = [op |-> "TransactionHasher.hash_for_signing", args |-> <<input.transaction>>]
  /\ outcome' = TransactionHasher_hash_for_signing(input.transaction)
  /\ UNCHANGED <<NACL_AVAILABLE, input, keypair, heap, threads>>

\* Ed25519KeyPair.from_seed_or_key(seed_or_key)
FromSeedOrKey ==
  /\ call = NoCall
  /\ input.kind = "key"
  /\ call' = [op |-> "from_seed_or_key", args |-> <<input.seed_or_key>>]
  /\ LET made == from_seed_or_key(input.seed_or_key) IN
       /\ outcome' = IF made.kind = "return" THEN Return("Ed25519KeyPair") ELSE made
       /\ keypair' = IF made.kind = "return" THEN made.val ELSE NoKeyPair
  /\ UNCHANGED <<NACL_AVAILABLE, input, heap, threads>>

\* Ed25519KeyPair.generate()
Generate ==
  /\ call = NoCall
  /\ input.kind = "none"
  /\ call' = [op |-> "generate", args |-> <<>>]
  /\ \E seed \in {SeedA, SeedB} :
       LET made == generate(seed) IN
       /\ outcome' = IF made.kind = "return" THEN Return("Ed25519KeyPair") ELSE made
       /\ keypair' = IF made.kind = "return" THEN made.val ELSE NoKeyPair
  /\ UNCHANGED <<NACL_AVAILABLE, input, heap, threads>>

\* a key pair has been built and no method of it called yet
Built == call.op \in {"from_seed_or_key", "generate"} /\ keypair # NoKeyPair

\* keypair.public_key_bytes()
PublicKeyBytes ==
  /\ Built
  /\ call' = [op |-> "public_key_bytes", args |-> <<>>]
  /\ outcome' = Return(public_key_bytes(keypair))
  /\ UNCHANGED <<NACL_AVAILABLE, input, keypair, heap, threads>>

\* keypair.private_key_bytes()
PrivateKeyBytes ==
  /\ Built
  /\ call' = [op |-> "private_key_bytes", args |-> <<>>]
  /\ outcome' = Return(private_key_bytes(keypair))
  /\ UNCHANGED <<NACL_AVAILABLE, input, keypair, heap, threads>>

\* keypair.derive_lite_identity_url()
DeriveLiteIdentityUrl ==
  /\ Built
  /\ call' = [op |-> "derive_lite_identity_url", args |-> <<>>]
  /\ outcome' = Return(derive_lite_identity_url(keypair))
  /\ UNCHANGED <<NACL_AVAILABLE, input, keypair, heap, threads>>

\* keypair.sign(message)
Sign ==
  /\ Built
  /\ \E message \in Messages :
       /\ call' = [op |-> "sign", args |-> <<message>>]
       /\ outcome' = Return(sign(keypair, message))
  /\ UNCHANGED <<NACL_AVAILABLE, input, keypair, heap, threads>>

\* keypair.verify(message, signature)
Verify ==
  /\ Built
  /\ \E message \in Messages, signed \in Messages :
       \E signature \in SignatureArgs(sign(keypair, signed)) :
         /\ call' = [op |-> "verify", args |-> <<message, signature>>]
         /\ outcome' = verify(keypair, message, signature)
  /\ UNCHANGED <<NACL_AVAILABLE, input, keypair, heap, threads>>

\* Ed25519Signature.verify_signature(public_key, message, signature)
VerifySignature ==
  /\ \/ call = NoCall /\ input.kind = "public_key"
     \/ Built
  /\ \E message \in Messages, signed \in Messages :
       LET public_key == IF keypair # NoKeyPair
                         THEN PyBytes(public_key_bytes(keypair))
                         ELSE input.public_key
           valid == IF keypair # NoKeyPair THEN sign(keypair, signed)
                    ELSE ed25519_sign(SeedA, message_bytes(signed))
       IN  \E signature \in SignatureArgs(valid) :
             /\ call' = [op |-> "verify_signature",
                          args |-> <<public_key, message, signature>>]
             /\ outcome' = verify_signature(public_key, message, signature)
  /\ UNCHANGED <<NACL_AVAILABLE, input, keypair, heap, threads>>

Next ==
  \/ DumpsCanonical
  \/ VerifyCanonicalFormat
  \/ Sha256Json
  \/ HashTransactionBody
  \/ HashTransaction
  \/ HashTransactionBinaryStyle
  \/ HashForSigning
  \/ HashForEd25519Signing
  \/ HashTransactionHex
  \/ VerifyTransactionHash
  \/ HashTransactionForSigning
  \/ TransactionHasherHashForSigning
  \/ FromSeedOrKey
  \/ Generate
  \/ PublicKeyBytes
  \/ PrivateKeyBytes
  \/ DeriveLiteIdentityUrl
  \/ Sign
  \/ Verify
  \/ VerifySignature

Spec == Init /\ [][Next]_vars

(***************************************************************************)
(* Concurrent calls.  Threads call dumps_canonical, hash_transaction_body, *)
(* hash_transaction, hash_transaction_binary_style and                     *)
(* hash_for_ed25519_signing on one transaction object and its body, which  *)
(* all of them share.  hash_transaction_body is taken statement by         *)
(* statement, since it is the one function that writes to a dict (the del  *)
(* at hashing.py:79); each other call reads the shared objects in a step   *)
(* of its own.                                                             *)
(***************************************************************************)
NumThreads == 2
Threads == 1..NumThreads

\* References to dict objects: the caller's body, and the copy thread t makes
BodyRef == <<"body", 0>>
CopyRef(t) == <<"copy", t>>
CanonicalRef(t) == <<"canonical", t>>
NoRef == <<"none", 0>>
Refs == {BodyRef} \cup {CopyRef(t) : t \in Threads} \cup {CanonicalRef(t) : t \in Threads}

\* Mutant: body_copy is bound to the caller's dict itself (body_copy = body).
dict_alias(t, ref) == ref

\* body.copy(): the new dict object, known by a reference of thread t's own
dict_copy(t, ref) == CopyRef(t)

KeyError == [cls |-> "KeyError", msg |-> <<>>]

\* Mutant: the members are rewritten in the dict that was passed in.
OrderedDict_in_place(t, ref) == ref

\* canonicalized_dict = OrderedDict() (canonjson.py:66): a new object, which
\* receives the canonical members of the dict at ref
OrderedDict(t, ref) == CanonicalRef(t)

\* the heap after thread t has canonicalized the dict at ref
canonicalized(t, ref) ==
  [heap EXCEPT ![OrderedDict(t, ref)] = _canonicalize(heap[ref])]

\* The shared transaction as it is now: its body member is the body object
transaction_now == dict_set(input.transaction, PyStr(Name.body), heap[BodyRef])

SharedBodies ==
  { PyDict(<<Entry(PyStr(Name.type), PyStr(Name.WriteData)),
             Entry(PyStr(Name.entry), PyDict(<<Entry(PyStr(Name.data), PyStr(<<120>>))>>)),
             Entry(PyStr(<<109>>), PyStr(<<109>>))>>),
    PyDict(<<Entry(PyStr(Name.entry), PyDict(<<Entry(PyStr(Name.data), PyBytes(<<0>>))>>)),
             Entry(PyStr(Name.type), PyStr(Name.SystemWriteData))>>),
    PyDict(<<Entry(PyStr(Name.type), PyStr(Name.WriteData))>>),
    PyDict(<<Entry(PyStr(Name.type), PyStr(Name.WriteData)),
             Entry(PyStr(Name.entry), PyInt(5))>>),
    PyDict(<<Entry(PyStr(Name.type), PyStr(<<115, 101, 110, 100, 45, 116, 111, 107, 101, 110, 115>>)),
             Entry(PyStr(Name.entry), PyDict(<<Entry(PyStr(Name.data), PyStr(<<120>>))>>))>>),
    PyDict(<<Entry(PyStr(Name.type), PyList(<<PyStr(Name.WriteData)>>))>>) }

SharedInputs ==
  { [kind |-> "shared",
     signature_metadata |-> PyDict(<<Entry(PyStr(<<118>>), PyInt(1))>>),
     transaction |-> PyDict(<<Entry(PyStr(Name.header), PyDict(<<Entry(PyStr(<<112>>), PyStr(<<97, 99, 99>>))>>)),
                              Entry(PyStr(Name.body), body)>>)] :
      body \in SharedBodies }

Operations ==
  { "dumps_canonical", "hash_transaction_body", "hash_transaction",
    "hash_transaction_binary_style", "hash_for_ed25519_signing" }

Idle ==
  [ pc |-> "idle", op |-> "none", transaction_type |-> PyNone, entry |-> PyNone,
    body_copy |-> NoRef, header_hash |-> <<>>, result |-> [kind |-> "none"] ]

ConcurrentInit ==
  /\ NACL_AVAILABLE = FALSE
  /\ input \in SharedInputs
  /\ keypair = NoKeyPair
  /\ call = NoCall
  /\ outcome = [kind |-> "none"]
  /\ heap = [r \in Refs |-> IF r = BodyRef
                            THEN dict_get(input.transaction, PyStr(Name.body))
                            ELSE PyNone]
  /\ threads = [t \in Threads |-> Idle]

\* what a thread's function returns to its caller: hash_transaction_body's
\* result goes through hashing.py:155-156 when hash_transaction_binary_style
\* called it
finish(self, body_hash) ==
  [self EXCEPT !.pc = "done",
               !.result =
                 IF self.op = "hash_transaction_binary_style" /\ body_hash.kind = "return"
                 THEN Return(sha256_bytes(self.header_hash \o body_hash.val))
                 ELSE body_hash]

Unshared == <<NACL_AVAILABLE, input, keypair, call, outcome>>

\* a thread calls one of the functions
ThreadCall ==
  \E t \in Threads, op \in Operations :
    /\ threads[t].pc = "idle"
    /\ threads' = [threads EXCEPT ![t].op = op,
                                  ![t].pc = CASE op = "hash_transaction_body" -> "body_type"
                                              [] op = "hash_transaction_binary_style" -> "style_header"
                                              [] OTHER -> "whole"]
    /\ UNCHANGED <<Unshared, heap>>

\* dumps_canonical(transaction)
ThreadDumpsCanonical ==
  \E t \in Threads :
    /\ threads[t].pc = "whole" /\ threads[t].op = "dumps_canonical"
    /\ threads' = [threads EXCEPT ![t] = finish(@, Return(dumps_canonical(transaction_now)))]
    /\ heap' = canonicalized(t, BodyRef)
    /\ UNCHANGED Unshared

\* hash_transaction(transaction)
ThreadHashTransaction ==
  \E t \in Threads :
    /\ threads[t].pc = "whole" /\ threads[t].op = "hash_transaction"
    /\ threads' = [threads EXCEPT ![t] = finish(@, hash_transaction(transaction_now))]
    /\ heap' = canonicalized(t, BodyRef)
    /\ UNCHANGED Unshared

\* hash_for_ed25519_signing(signature_metadata, transaction)
ThreadHashForEd25519Signing ==
  \E t \in Threads :
    /\ threads[t].pc = "whole" /\ threads[t].op = "hash_for_ed25519_signing"
    /\ threads' = [threads EXCEPT ![t] =
         finish(@, hash_for_ed25519_signing(input.signature_metadata, transaction_now))]
    /\ heap' = canonicalized(t, BodyRef)
    /\ UNCHANGED Unshared

\* hash_transaction_binary_style, hashing.py:141-151: the checks and the
\* header hash; hash_transaction_body(body) comes next
ThreadBinaryStyleHeader ==
  \E t \in Threads :
    /\ threads[t].pc = "style_header"
    /\ LET transaction == transaction_now IN
       threads' = [threads EXCEPT ![t] =
         IF ~dict_has(transaction, PyStr(Name.header))
         THEN finish(@, Raise(ValueError(Msg.missing_header)))
         ELSE IF ~dict_has(transaction, PyStr(Name.body))
         THEN finish(@, Raise(ValueError(Msg.missing_body)))
         ELSE [@ EXCEPT !.header_hash =
                          hash_transaction_header(dict_get(transaction, PyStr(Name.header))),
                        !.pc = "body_type"]]
    /\ UNCHANGED <<Unshared, heap>>

\* hash_transaction_body, hashing.py:61-69
ThreadBodyType ==
  \E t \in Threads :
    /\ threads[t].pc = "body_type"
    /\ LET transaction_type == body_type(heap[BodyRef]) IN
       IF ~hashable(transaction_type)
       THEN threads' = [threads EXCEPT ![t] = finish(@, Raise(TypeError))]
       ELSE threads' = [threads EXCEPT ![t].transaction_type = transaction_type,
                                       ![t].pc = IF transaction_type \in write_data_types
                                                 THEN "body_entry" ELSE "body_plain"]
    /\ UNCHANGED <<Unshared, heap>>

\* hash_transaction_body, hashing.py:92
ThreadBodyPlain ==
  \E t \in Threads :
    /\ threads[t].pc = "body_plain"
    /\ threads' = [threads EXCEPT ![t] = finish(@, Return(sha256_json(heap[BodyRef])))]
    /\ heap' = canonicalized(t, BodyRef)
    /\ UNCHANGED Unshared

\* hash_transaction_body, hashing.py:70-75
ThreadBodyEntry ==
  \E t \in Threads :
    /\ threads[t].pc = "body_entry"
    /\ LET body == heap[BodyRef]
           transaction_type == threads[t].transaction_type
           entry == dict_get(body, PyStr(Name.entry))
           has_data == str_in(Name.data, entry)
       IN  threads' = [threads EXCEPT ![t] =
             IF ~dict_has(body, PyStr(Name.entry)) THEN
               finish(@, Raise(ValueError(Msg.invalid \o str_(transaction_type)
                                            \o Msg.missing_entry)))
             ELSE IF falsy(entry) THEN
               finish(@, Raise(ValueError(Msg.invalid \o str_(transaction_type)
                                            \o Msg.missing_entry_data)))
             ELSE IF ~has_data.ok THEN finish(@, Raise(TypeError))
             ELSE IF ~has_data.in THEN
               finish(@, Raise(ValueError(Msg.invalid \o str_(transaction_type)
                                            \o Msg.missing_entry_data)))
             ELSE [@ EXCEPT !.entry = entry, !.pc = "body_copy"]]
    /\ UNCHANGED <<Unshared, heap>>

\* hash_transaction_body, hashing.py:78: body_copy = body.copy()
ThreadBodyCopy ==
  \E t \in Threads :
    /\ threads[t].pc = "body_copy"
    /\ LET body_copy == dict_copy(t, BodyRef) IN
       /\ heap' = [heap EXCEPT ![body_copy] = heap[BodyRef]]
       /\ threads' = [threads EXCEPT ![t].body_copy = body_copy, ![t].pc = "body_del"]
    /\ UNCHANGED Unshared

\* hash_transaction_body, hashing.py:79: del body_copy['entry']
ThreadBodyDel ==
  \E t \in Threads :
    /\ threads[t].pc = "body_del"
    /\ LET body_copy == threads[t].body_copy IN
       IF dict_has(heap[body_copy], PyStr(Name.entry))
       THEN /\ heap' = [heap EXCEPT ![body_copy] = dict_del(@, PyStr(Name.entry))]
            /\ threads' = [threads EXCEPT ![t].pc = "body_hash"]
       ELSE /\ threads' = [threads EXCEPT ![t] = finish(@, Raise(KeyError))]
            /\ UNCHANGED heap
    /\ UNCHANGED Unshared

\* hash_transaction_body, hashing.py:82-89
ThreadBodyHash ==
  \E t \in Threads :
    /\ threads[t].pc = "body_hash"
    /\ LET without_entry_hash == sha256_json(heap[threads[t].body_copy])
           entry_hash == sha256_json(threads[t].entry)
       IN  threads' = [threads EXCEPT ![t] =
             finish(@, Return(sha256_bytes(without_entry_hash \o entry_hash)))]
    /\ UNCHANGED <<Unshared, heap>>

ConcurrentNext ==
  \/ ThreadCall
  \/ ThreadDumpsCanonical
  \/ ThreadHashTransaction
  \/ ThreadHashForEd25519Signing
  \/ ThreadBinaryStyleHeader
  \/ ThreadBodyType
  \/ ThreadBodyPlain
  \/ ThreadBodyEntry
  \/ ThreadBodyCopy
  \/ ThreadBodyDel
  \/ ThreadBodyHash

ConcurrentSpec == ConcurrentInit /\ [][ConcurrentNext]_vars

(***************************************************************************)
(* Properties                                                              *)
(***************************************************************************)
\* The trees that hold the same keys and values as x and differ from it only
\* in the insertion order of dict keys, at any depth
RECURSIVE Reorderings(_)
Reorderings(x) ==
  IF x.t = "dict" THEN
    LET n == Len(x.entries)
        choices == UNION {Reorderings(x.entries[i].v) : i \in 1..n}
    IN  UNION { { PyDict([i \in 1..n |-> Entry(x.entries[p[i]].k, f[i])]) :
                    f \in {g \in [1..n -> choices] :
                            \A i \in 1..n : g[i] \in Reorderings(x.entries[p[i]].v)} } :
                p \in Permutations(1..n) }
  ELSE IF x.t \in {"list", "tuple"} THEN
    LET n == Len(x.items)
        choices == UNION {Reorderings(x.items[i]) : i \in 1..n}
    IN  { [t |-> x.t, items |-> f] :
            f \in {g \in [1..n -> choices] :
                    \A i \in 1..n : g[i] \in Reorderings(x.items[i])} }
  ELSE {x}

\* C1: key-order independence.  Every tree that differs from the argument
\* only in the insertion order of dict keys, at any depth, has the same
\* dumps_canonical string and the same sha256_json digest.
C1_KeyOrderIndependence ==
  /\ call.op = "dumps_canonical" =>
       \A y \in Reorderings(call.args[1]) : dumps_canonical(y) = outcome.val
  /\ call.op = "sha256_json" =>
       \A y \in Reorderings(call.args[1]) : sha256_json(y) = outcome.val

\* C1 witness: a list holding a dict whose keys can be reordered was encoded.
C1_Witness ==
  /\ call.op = "dumps_canonical"
  /\ call.args[1].t = "list"
  /\ \E i \in 1..Len(call.args[1].items) : call.args[1].items[i].t = "dict"
  /\ Cardinality(Reorderings(call.args[1])) > 1

\* C2: idempotence.  The output parses as JSON and canonicalizing the parsed
\* value gives the output again.
C2_Idempotence ==
  call.op = "dumps_canonical" =>
    LET parsed == json_loads(outcome.val)
    IN  parsed.ok /\ dumps_canonical(parsed.val) = outcome.val

\* x holds an object of one of the given types, at any depth
RECURSIVE Holds(_, _)
Holds(x, types) ==
  \/ x.t \in types
  \/ x.t = "dict" /\ \E i \in 1..Len(x.entries) : Holds(x.entries[i].v, types)
  \/ x.t \in {"list", "tuple"} /\ \E i \in 1..Len(x.items) : Holds(x.items[i], types)

\* C2 witness: a tree holding a tuple and a dict was encoded, and what the
\* output parses to is not the tree itself.
C2_Witness ==
  /\ call.op = "dumps_canonical"
  /\ Holds(call.args[1], {"tuple"}) /\ Holds(call.args[1], {"dict"})
  /\ json_loads(outcome.val).val # call.args[1]

\* The four payload-carrying body kinds
PayloadKinds ==
  {Name.WriteData, Name.WriteDataTo, Name.SyntheticWriteData, Name.SystemWriteData}

\* body's type is one of the payload-carrying kinds
IsPayloadBody(body) ==
  \E i \in 1..Len(body.entries) :
    /\ body.entries[i].k = PyStr(Name.type)
    /\ body.entries[i].v.t = "str"
    /\ body.entries[i].v.s \in PayloadKinds

\* body has an entry that is a map containing a data field
HasEntryMapWithData(body) ==
  \E i \in 1..Len(body.entries) :
    /\ body.entries[i].k = PyStr(Name.entry)
    /\ body.entries[i].v.t = "dict"
    /\ \E j \in 1..Len(body.entries[i].v.entries) :
         body.entries[i].v.entries[j].k = PyStr(Name.data)

\* d with only the given key removed, the other members in their order
WithoutKey(d, key) == PyDict(SelectSeq(d.entries, LAMBDA e : e.k # PyStr(key)))
ValueOf(d, key) ==
  LET i == CHOOSE j \in 1..Len(d.entries) : d.entries[j].k = PyStr(key)
  IN  d.entries[i].v
HasKey(d, key) == \E i \in 1..Len(d.entries) : d.entries[i].k = PyStr(key)

\* C3: payload-separation body hash.  For a payload-carrying body whose entry
\* is a map containing data, hash_transaction_body returns
\* sha256(sha256_json(body without entry) ++ sha256_json(entry)).
C3_PayloadSeparation ==
  ( /\ call.op = "hash_transaction_body"
    /\ IsPayloadBody(call.args[1])
    /\ HasEntryMapWithData(call.args[1]) ) =>
      /\ outcome.kind = "return"
      /\ outcome.val =
           hashlib_sha256(
             hashlib_sha256(encode_utf8(dumps_canonical(
               WithoutKey(call.args[1], Name.entry))))
             \o hashlib_sha256(encode_utf8(dumps_canonical(
                  ValueOf(call.args[1], Name.entry)))))

\* C3 witness: a payload-carrying body with a memo beside its type and an
\* entry of two members, data among them, was hashed.
C3_Witness ==
  /\ call.op = "hash_transaction_body"
  /\ IsPayloadBody(call.args[1])
  /\ HasEntryMapWithData(call.args[1])
  /\ Len(call.args[1].entries) = 3
  /\ Len(ValueOf(call.args[1], Name.entry).entries) = 2
  /\ outcome.kind = "return"

\* C4 (as claimed): a payload-carrying body fails with a validation error
\* unless it has an entry that is a map containing data.
C4_EntryMapRequired ==
  ( /\ call.op = "hash_transaction_body"
    /\ IsPayloadBody(call.args[1])
    /\ ~HasEntryMapWithData(call.args[1]) ) =>
      outcome.kind = "raise" /\ outcome.exc.cls = "ValueError"

\* C5: signing hash composition.  With header and body present the result is
\* sha256(sha256_json(meta) ++ hash_transaction(tx)); otherwise the call
\* fails with the validation error of hash_transaction.
C5_SigningHashComposition ==
  call.op = "hash_for_ed25519_signing" =>
    LET meta == call.args[1]
        tx == call.args[2]
        flat == hash_transaction(tx)
    IN  IF HasKey(tx, Name.header) /\ HasKey(tx, Name.body)
        THEN /\ flat.kind = "return"
             /\ outcome.kind = "return"
             /\ outcome.val =
                  hashlib_sha256(hashlib_sha256(encode_utf8(dumps_canonical(meta)))
                                   \o flat.val)
        ELSE /\ flat.kind = "raise"
             /\ outcome.kind = "raise"
             /\ outcome.exc = flat.exc
             /\ outcome.exc.cls = "ValueError"

\* C5 witness: a signing hash was returned for metadata of two members.
C5_Witness ==
  /\ call.op = "hash_for_ed25519_signing"
  /\ Len(call.args[1].entries) = 2
  /\ outcome.kind = "return"

\* C6: hash_transaction fails with a validation error when header or body is
\* missing, and otherwise returns sha256 of the canonical encoding of the
\* whole transaction, other top-level keys included.
C6_FlatTransactionHash ==
  call.op = "hash_transaction" =>
    LET tx == call.args[1] IN
    IF HasKey(tx, Name.header) /\ HasKey(tx, Name.body)
    THEN /\ outcome.kind = "return"
         /\ outcome.val = hashlib_sha256(encode_utf8(dumps_canonical(tx)))
    ELSE outcome.kind = "raise" /\ outcome.exc.cls = "ValueError"

\* C6 witness: a transaction with header, body and a third key was hashed.
C6_Witness ==
  /\ call.op = "hash_transaction"
  /\ Len(call.args[1].entries) = 3
  /\ outcome.kind = "return"

\* C9 (as claimed): a tree holding an object outside the closed Value variant
\* is rejected with an error, and no string is returned for it.
C9_ForeignRejected ==
  (call.op = "dumps_canonical" /\ Holds(call.args[1], {"object"})) =>
    outcome.kind = "raise"

\* The UTF-16 code units of a str
RECURSIVE utf16(_)
utf16(s) ==
  IF s = <<>> THEN <<>>
  ELSE (IF Head(s) < 65536 THEN <<Head(s)>>
        ELSE <<55296 + ((Head(s) - 65536) \div 1024),
               56320 + ((Head(s) - 65536) % 1024)>>) \o utf16(Tail(s))

\* lexicographic order of two sequences of numbers
RECURSIVE SeqLess(_, _)
SeqLess(a, b) ==
  IF b = <<>> THEN FALSE
  ELSE IF a = <<>> THEN TRUE
  ELSE IF Head(a) # Head(b) THEN Head(a) < Head(b)
  ELSE SeqLess(Tail(a), Tail(b))

\* every object of the tree has its members in ascending UTF-16 key order
RECURSIVE MembersAscendUtf16(_)
MembersAscendUtf16(x) ==
  IF x.t = "dict" THEN
    /\ \A i \in 1..(Len(x.entries) - 1) :
         SeqLess(utf16(x.entries[i].k.s), utf16(x.entries[i + 1].k.s))
    /\ \A i \in 1..Len(x.entries) : MembersAscendUtf16(x.entries[i].v)
  ELSE IF x.t = "list" THEN \A i \in 1..Len(x.items) : MembersAscendUtf16(x.items[i])
  ELSE TRUE

\* C10 (as claimed): in the output the members of every object, at every
\* depth, are in ascending order of their keys as UTF-16 code-unit sequences.
C10_Utf16KeyOrder ==
  call.op = "dumps_canonical" =>
    LET parsed == json_loads(outcome.val)
    IN  parsed.ok /\ MembersAscendUtf16(parsed.val)

\* the bytes a bytes-or-hex-string argument stands for
ArgBytes(arg) == IF arg.t = "str" THEN bytes_fromhex(arg.s).bs ELSE arg.bs
ArgWellFormed(arg) == arg.t = "str" => bytes_fromhex(arg.s).ok

\* the key pair held was built from a 64-byte input
BuiltFrom64 ==
  /\ keypair # NoKeyPair
  /\ input.kind = "key"
  /\ Len(ArgBytes(input.seed_or_key)) = 64

ValidSignature(public, message, signature) ==
  /\ ArgWellFormed(signature)
  /\ Len(public) = SeedSize
  /\ ArgBytes(signature) = ed25519_signature(public, message_bytes(message))

\* C8 (as claimed): verify and verify_signature never raise, and return
\* False for a malformed or invalid signature and for a malformed public key.
C8_VerifyNeverRaises ==
  /\ call.op = "verify" =>
       /\ outcome.kind = "return"
       /\ ~ValidSignature(ed25519_public(keypair._private_key),
                          call.args[1], call.args[2]) => outcome.val = FALSE
  /\ call.op = "verify_signature" =>
       /\ outcome.kind = "return"
       /\ ( \/ ~ArgWellFormed(call.args[1])
            \/ ~ValidSignature(ArgBytes(call.args[1]), call.args[2], call.args[3]) )
            => outcome.val = FALSE

\* the key pair held was built from a 32-byte seed, given as bytes or as hex
BuiltFromSeed ==
  /\ keypair # NoKeyPair
  /\ input.kind = "key"
  /\ Len(ArgBytes(input.seed_or_key)) = 32

\* the key pair held came from generate()
Generated == keypair # NoKeyPair /\ input.kind = "none"

\* C11: for a key pair kp from generate() or from a 32-byte seed and any
\* message m, kp.verify(m, kp.sign(m)) is True and
\* verify_signature(kp.public_key_bytes(), m, kp.sign(m)) is True.
C11_SignatureRoundTrip ==
  (BuiltFromSeed \/ Generated) =>
    /\ ( /\ call.op = "verify"
         /\ call.args[2] = PyBytes(sign(keypair, call.args[1])) )
         => (outcome.kind = "return" /\ outcome.val = TRUE)
    /\ ( /\ call.op = "verify_signature"
         /\ call.args[1] = PyBytes(public_key_bytes(keypair))
         /\ call.args[3] = PyBytes(sign(keypair, call.args[2])) )
         => (outcome.kind = "return" /\ outcome.val = TRUE)

\* C11 witness: under PyNaCl, a key pair built from a 32-byte seed has had its
\* own signature of a message verified against its public_key_bytes().
C11_Witness ==
  /\ BuiltFromSeed
  /\ NACL_AVAILABLE
  /\ call.op = "verify_signature"
  /\ call.args[1] = PyBytes(public_key_bytes(keypair))
  /\ call.args[3] = PyBytes(sign(keypair, call.args[2]))
  /\ outcome.kind = "return"
  /\ outcome.val = TRUE

\* C20 (as claimed): generate() never fails, with or without PyNaCl: it
\* returns a key pair whose public_key_bytes() has 32 bytes and whose own
\* signatures verify.
C20_GenerateNeverFails ==
  /\ call.op = "generate" => outcome.kind = "return"
  /\ Generated =>
       /\ Len(public_key_bytes(keypair)) = 32
       /\ (call.op = "verify" /\ call.args[2] = PyBytes(sign(keypair, call.args[1])))
            => (outcome.kind = "return" /\ outcome.val = TRUE)

\* the characters 0-9 and a-f
LowerHex == (48..57) \cup (97..102)

\* C12: derive_lite_identity_url() is "acc://" + hexKey + checksumHex, hexKey
\* the lower-case hex of the first 20 bytes of sha256(public key), checksumHex
\* the hex of bytes 28..31 of sha256 over the UTF-8 bytes of hexKey; 48 hex
\* characters follow the scheme.
C12_LiteIdentityUrl ==
  call.op = "derive_lite_identity_url" =>
    LET hexKey == bytes_hex(SubSeq(hashlib_sha256(public_key_bytes(keypair)), 1, 20))
        checksumHex == bytes_hex(SubSeq(hashlib_sha256(encode_utf8(hexKey)), 29, 32))
        url == outcome.val
    IN  /\ outcome.kind = "return"
        /\ url = <<97, 99, 99, 58, 47, 47>> \o hexKey \o checksumHex
        /\ Len(url) = 6 + 48
        /\ \A i \in 7..Len(url) : url[i] \in LowerHex

\* C12 witness: a URL was derived whose checksum differs from the checksum
\* the raw 20 bytes would give.
C12_Witness ==
  /\ call.op = "derive_lite_identity_url"
  /\ outcome.kind = "return"
  /\ SubSeq(outcome.val, 47, 54)
       # bytes_hex(SubSeq(hashlib_sha256(
             SubSeq(hashlib_sha256(public_key_bytes(keypair)), 1, 20)), 29, 32))

\* s ends with suffix
EndsWith(s, suffix) ==
  /\ Len(suffix) <= Len(s)
  /\ SubSeq(s, Len(s) - Len(suffix) + 1, Len(s)) = suffix

\* C13: from_seed_or_key accepts exactly the inputs of 32 or 64 bytes (after
\* hex decoding of a string); for any other length it raises ValueError with
\* a message reporting the length received and builds no key pair, under
\* either backend.
C13_KeyLengthChecked ==
  (call.op = "from_seed_or_key" /\ ArgWellFormed(call.args[1])) =>
    LET n == Len(ArgBytes(call.args[1])) IN
    IF n \in {32, 64}
    THEN outcome.kind = "return" /\ keypair # NoKeyPair
    ELSE /\ outcome.kind = "raise"
         /\ outcome.exc.cls = "ValueError"
         /\ EndsWith(outcome.exc.msg, Digits(n))
         /\ keypair = NoKeyPair

\* C13 witness: a hex string of 31 bytes was rejected.
C13_Witness ==
  /\ call.op = "from_seed_or_key"
  /\ call.args[1].t = "str"
  /\ ArgWellFormed(call.args[1])
  /\ Len(ArgBytes(call.args[1])) = 31
  /\ outcome.kind = "raise"
  /\ keypair = NoKeyPair

\* C14 (as claimed): with header and body present and a body that
\* hash_transaction_body hashes, hash_transaction_binary_style returns
\* sha256(hash_transaction_header(header) ++ hash_transaction_body(body));
\* in every other case it fails with a validation error.
C14_LayeredHash ==
  call.op = "hash_transaction_binary_style" =>
    LET tx == call.args[1] IN
    IF /\ HasKey(tx, Name.header)
       /\ HasKey(tx, Name.body)
       /\ hash_transaction_body(ValueOf(tx, Name.body)).kind = "return"
    THEN /\ outcome.kind = "return"
         /\ outcome.val =
              hashlib_sha256(
                hashlib_sha256(encode_utf8(dumps_canonical(ValueOf(tx, Name.header))))
                \o hash_transaction_body(ValueOf(tx, Name.body)).val)
    ELSE outcome.kind = "raise" /\ outcome.exc.cls = "ValueError"

\* C17: hash_for_signing and hash_transaction are the same operation: the
\* same 32-byte digest, or the same validation error.
C17_SigningHashIsFlatHash ==
  call.op = "hash_for_signing" =>
    LET flat == hash_transaction(call.args[1]) IN
    /\ outcome.kind = flat.kind
    /\ flat.kind = "return" => (outcome.val = flat.val /\ Len(outcome.val) = 32)
    /\ flat.kind = "raise" => (outcome.exc = flat.exc /\ outcome.exc.cls = "ValueError")

\* C17 witness: hash_for_signing returned a digest for a transaction whose
\* layered hash is a different digest.
C17_Witness ==
  /\ call.op = "hash_for_signing"
  /\ outcome.kind = "return"
  /\ hash_transaction_binary_style(call.args[1]).kind = "return"
  /\ hash_transaction_binary_style(call.args[1]).val # outcome.val

\* y has an int exactly where x has an int and a float exactly where x has
\* a float; a member of a dict of x is found in y under the key's str()
RECURSIVE SameNumberVariants(_, _)
SameNumberVariants(x, y) ==
  CASE x.t = "int" -> y.t = "int"
    [] x.t = "float" -> y.t = "float"
    [] x.t \in {"list", "tuple"} ->
         /\ y.t = "list"
         /\ Len(y.items) = Len(x.items)
         /\ \A i \in 1..Len(x.items) : SameNumberVariants(x.items[i], y.items[i])
    [] x.t = "dict" ->
         /\ y.t = "dict"
         /\ Len(y.entries) = Len(x.entries)
         /\ \A i \in 1..Len(x.entries) :
              /\ HasKey(y, str_(x.entries[i].k))
              /\ SameNumberVariants(x.entries[i].v, ValueOf(y, str_(x.entries[i].k)))
    [] OTHER -> y.t \notin {"int", "float"}

\* C15: number-type fidelity.  An integer renders without a decimal point or
\* exponent, and parsing dumps_canonical(x) gives an integer exactly where x
\* has an integer and a float exactly where x has a float.
C15_NumberFidelity ==
  call.op = "dumps_canonical" =>
    LET x == call.args[1]
        parsed == json_loads(outcome.val)
    IN  /\ parsed.ok
        /\ SameNumberVariants(x, parsed.val)
        /\ x.t = "int" =>
             \A i \in 1..Len(outcome.val) : outcome.val[i] \notin {Ch.dot, 69, 101}

\* C15 witness: a list holding an integer and a float was encoded.
C15_Witness ==
  /\ call.op = "dumps_canonical"
  /\ call.args[1].t = "list"
  /\ Holds(call.args[1], {"int"})
  /\ Holds(call.args[1], {"float"})
  /\ outcome.kind = "return"

UrlOfPublicKey(public) ==
  LET hexKey == bytes_hex(SubSeq(hashlib_sha256(public), 1, 20))
  IN  <<97, 99, 99, 58, 47, 47>> \o hexKey
        \o bytes_hex(SubSeq(hashlib_sha256(encode_utf8(hexKey)), 29, 32))

\* C19: address-derivation determinism.  For a key pair built from a 32-byte
\* seed, public_key_bytes() and derive_lite_identity_url() are functions of
\* the seed alone: the same whether the seed came as bytes or as hex, and
\* the same under either backend.
C19_DerivationDeterminism ==
  BuiltFromSeed =>
    LET seed == ArgBytes(input.seed_or_key) IN
    /\ call.op = "public_key_bytes" =>
         (outcome.kind = "return" /\ outcome.val = ed25519_public(seed))
    /\ call.op = "derive_lite_identity_url" =>
         (outcome.kind = "return" /\ outcome.val = UrlOfPublicKey(ed25519_public(seed)))

\* C19 witness: under PyNaCl, the URL of a key pair built from the hex
\* string of a 32-byte seed was derived.
C19_Witness ==
  /\ BuiltFromSeed
  /\ NACL_AVAILABLE
  /\ input.seed_or_key.t = "str"
  /\ call.op = "derive_lite_identity_url"
  /\ outcome.kind = "return"

\* what a call returns or raises when it runs alone on the caller's objects
Alone(op) ==
  CASE op = "dumps_canonical" -> Return(dumps_canonical(input.transaction))
    [] op = "hash_transaction_body" ->
         hash_transaction_body(ValueOf(input.transaction, Name.body))
    [] op = "hash_transaction" -> hash_transaction(input.transaction)
    [] op = "hash_transaction_binary_style" ->
         hash_transaction_binary_style(input.transaction)
    [] op = "hash_for_ed25519_signing" ->
         hash_for_ed25519_signing(input.signature_metadata, input.transaction)

SameOutcome(a, b) ==
  /\ a.kind = b.kind
  /\ a.kind = "return" => a.val = b.val
  /\ a.kind = "raise" => a.exc = b.exc

\* C18: under any interleaving of concurrent calls on the same transaction
\* and body objects, no call writes to its arguments and every call returns
\* what it returns when run alone.
C18_ConcurrentCallsAgree ==
  /\ heap[BodyRef] = ValueOf(input.transaction, Name.body)
  /\ \A t \in Threads :
       threads[t].pc = "done" => SameOutcome(threads[t].result, Alone(threads[t].op))

\* C18 witness: hash_transaction_body has deleted the entry from its copy in
\* one thread while another thread, which called
\* hash_transaction_binary_style after that, has returned a digest.
C18_Witness ==
  \E t, u \in Threads :
    /\ t # u
    /\ threads[t].op = "hash_transaction_body"
    /\ threads[t].pc = "body_hash"
    /\ ~HasKey(heap[CopyRef(t)], Name.entry)
    /\ threads[u].op = "hash_transaction_binary_style"
    /\ threads[u].pc = "done"
    /\ threads[u].body_copy = CopyRef(u)
    /\ threads[u].result.kind = "return"

\* y, the parsed output, holds what x holds: a list for every list or tuple,
\* of the same length and with the elements in the same positions; a dict for
\* every dict, with the same members under str(key) and its keys ascending;
\* and the encoder's leaf for every other object
RECURSIVE SameSequences(_, _)
SameSequences(x, y) ==
  IF x.t \in {"list", "tuple"} THEN
    /\ y.t = "list"
    /\ Len(y.items) = Len(x.items)
    /\ \A i \in 1..Len(x.items) : SameSequences(x.items[i], y.items[i])
  ELSE IF x.t = "dict" THEN
    /\ y.t = "dict"
    /\ Len(y.entries) = Len(x.entries)
    /\ \A i \in 1..Len(x.entries) :
         /\ HasKey(y, str_(x.entries[i].k))
         /\ SameSequences(x.entries[i].v, ValueOf(y, str_(x.entries[i].k)))
    /\ \A i, j \in 1..Len(y.entries) :
         i < j => str_lt(y.entries[i].k.s, y.entries[j].k.s)
  ELSE y = _canonicalize(x)

\* C21: array order is preserved.  Every list or tuple of the argument, at
\* any depth, appears in the output as a JSON array with the same number of
\* elements in the same order; only the key order of dicts is normalized,
\* also of the dicts that are elements of a sequence.
C21_ArrayOrderPreserved ==
  call.op = "dumps_canonical" =>
    LET parsed == json_loads(outcome.val)
    IN  parsed.ok /\ SameSequences(call.args[1], parsed.val)

\* C21 witness: a list of two different elements was encoded, the first a
\* dict whose keys are not in ascending order, inside another container.
C21_Witness ==
  /\ call.op = "dumps_canonical"
  /\ call.args[1].t \in {"list", "dict"}
  /\ \E x \in ( IF call.args[1].t = "list"
                THEN {call.args[1].items[i] : i \in 1..Len(call.args[1].items)}
                ELSE {call.args[1].entries[i].v : i \in 1..Len(call.args[1].entries)} ) :
       /\ x.t = "list" /\ Len(x.items) = 2
       /\ x.items[1].t = "dict" /\ Len(x.items[1].entries) = 2
       /\ str_lt(x.items[1].entries[2].k.s, x.items[1].entries[1].k.s)
       /\ x.items[2] # x.items[1]
  /\ outcome.kind = "return"

\* RFC 4648, section 4: the value of a character of the base64 alphabet
b64index(c) ==
  IF c >= 65 /\ c <= 90 THEN c - 65
  ELSE IF c >= 97 /\ c <= 122 THEN c - 71
  ELSE IF c >= 48 /\ c <= 57 THEN c + 4
  ELSE IF c = Ch.plus THEN 62
  ELSE IF c = Ch.slash THEN 63
  ELSE -1

\* s is padded base64: groups of four characters of the alphabet, with '='
\* only as the last or the last two characters of the last group
IsPaddedBase64(s) ==
  /\ Len(s) % 4 = 0
  /\ \A i \in 1..Len(s) :
       \/ b64index(s[i]) >= 0
       \/ s[i] = Ch.equals /\ i = Len(s)
       \/ s[i] = Ch.equals /\ i = Len(s) - 1 /\ s[Len(s)] = Ch.equals

\* RFC 4648 decoding of padded base64
RECURSIVE b64decode(_)
b64decode(s) ==
  IF s = <<>> THEN <<>>
  ELSE LET a == b64index(s[1])
           b == b64index(s[2])
           c == b64index(s[3])
           d == b64index(s[4])
       IN  IF s[3] = Ch.equals THEN <<a * 4 + b \div 16>>
           ELSE IF s[4] = Ch.equals THEN <<a * 4 + b \div 16, (b % 16) * 16 + c \div 4>>
           ELSE <<a * 4 + b \div 16, (b % 16) * 16 + c \div 4, (c % 4) * 64 + d>>
                  \o b64decode(SubSeq(s, 5, Len(s)))

\* Where x holds bytes, at any depth, y holds a str of padded base64 that
\* decodes to them
RECURSIVE BlobsEncoded(_, _)
BlobsEncoded(x, y) ==
  IF x.t = "bytes" THEN
    /\ y.t = "str"
    /\ IsPaddedBase64(y.s)
    /\ b64decode(y.s) = x.bs
  ELSE IF x.t \in {"list", "tuple"} THEN
    /\ y.t = "list" /\ Len(y.items) = Len(x.items)
    /\ \A i \in 1..Len(x.items) : BlobsEncoded(x.items[i], y.items[i])
  ELSE IF x.t = "dict" THEN
    /\ y.t = "dict"
    /\ \A i \in 1..Len(x.entries) :
         /\ HasKey(y, str_(x.entries[i].k))
         /\ BlobsEncoded(x.entries[i].v, ValueOf(y, str_(x.entries[i].k)))
  ELSE TRUE

\* C22: bytes are base64.  Every bytes object of the argument, at any depth,
\* appears in the output as a JSON string holding its RFC 4648 base64
\* encoding with '=' padding, a multiple of four characters long, and
\* decoding that string gives back the bytes.
C22_BytesAsPaddedBase64 ==
  call.op = "dumps_canonical" =>
    LET parsed == json_loads(outcome.val)
    IN  parsed.ok /\ BlobsEncoded(call.args[1], parsed.val)

\* C22 witness: bytes that need padding were encoded two levels down, next to
\* bytes that need none.
C22_Witness ==
  /\ call.op = "dumps_canonical"
  /\ call.args[1].t = "dict"
  /\ \E i \in 1..Len(call.args[1].entries) :
       LET x == call.args[1].entries[i].v
       IN  /\ x.t = "list" /\ Len(x.items) = 2
           /\ x.items[1].t = "bytes" /\ Len(x.items[1].bs) % 3 = 0
           /\ x.items[1].bs # <<>>
           /\ x.items[2].t = "bytes" /\ Len(x.items[2].bs) % 3 = 1
  /\ Contains(outcome.val, <<Ch.equals, Ch.equals>>)

\* C23: the default body hash.  For every body whose type is not exactly one
\* of WriteData, WriteDataTo, SyntheticWriteData and SystemWriteData (the
\* comparison is case-sensitive; a body with no type field is such a body),
\* hash_transaction_body(body) returns sha256_json(body): it raises nothing
\* and an entry field gets no special treatment.
C23_PlainBodyHash ==
  call.op = "hash_transaction_body" /\ ~IsPayloadBody(call.args[1]) =>
    outcome = Return(sha256_json(call.args[1]))

\* transaction has both the header key and the body key
HasHeaderAndBody(transaction) ==
  HasKey(transaction, Name.header) /\ HasKey(transaction, Name.body)

\* C24 as stated: hash verification.  verify_transaction_hash(tx, expected)
\* returns True if hash_transaction(tx) equals expected (hex-decoded when
\* expected is a string) and False otherwise, for every transaction and every
\* expected value given as a hex string or as bytes.
C24_VerifyReturnsForEveryTransaction ==
  ( /\ call.op = "verify_transaction_hash"
    /\ ArgWellFormed(call.args[2]) ) =>
    LET computed == hash_transaction(call.args[1])
    IN  outcome = Return(/\ computed.kind = "return"
                         /\ computed.val = ArgBytes(call.args[2]))

\* C24 as the code has it: for a transaction with header and body,
\* verify_transaction_hash returns True exactly if hash_transaction(tx)
\* equals expected (hex-decoded, in either case of the letters, when expected
\* is a string), and False otherwise; for a transaction without header or
\* body it raises the ValueError of hash_transaction.  hash_transaction_hex
\* is the digest as 64 lower-case hex characters, and
\* verify_transaction_hash accepts it.
C24_VerifyTransactionHash ==
  /\ ( /\ call.op = "verify_transaction_hash"
       /\ ArgWellFormed(call.args[2]) ) =>
       LET computed == hash_transaction(call.args[1])
       IN  IF HasHeaderAndBody(call.args[1])
           THEN /\ computed.kind = "return"
                /\ outcome = Return(computed.val = ArgBytes(call.args[2]))
           ELSE /\ outcome.kind = "raise"
                /\ outcome.exc.cls = "ValueError"
                /\ outcome = computed
  /\ ( /\ call.op = "hash_transaction_hex"
       /\ HasHeaderAndBody(call.args[1]) ) =>
       /\ outcome.kind = "return"
       /\ Len(outcome.val) = 2 * DigestSize
       /\ \A i \in 1..Len(outcome.val) : outcome.val[i] \in LowerHex
       /\ bytes_fromhex(outcome.val).bs = hash_transaction(call.args[1]).val
       /\ verify_transaction_hash(call.args[1], PyStr(outcome.val)) = Return(TRUE)

\* C24 witness: a transaction's own digest, given as a hex string, was
\* accepted.
C24_Witness ==
  /\ call.op = "verify_transaction_hash"
  /\ call.args[2].t = "str"
  /\ HasHeaderAndBody(call.args[1])
  /\ call.args[2] = PyStr(hash_transaction_hex(call.args[1]).val)
  /\ outcome = Return(TRUE)

\* The text
\* {"body":{"to":[{"amount":"1000","url":"acc://bob.acme/tokens"}],"type":"send-tokens"},
\*  "header":{"principal":"acc://alice.acme/tokens","timestamp":1234567890123}}
\* written without the line break
expected_canonical ==
  <<
     123, 34, 98, 111, 100, 121, 34, 58, 123, 34, 116, 111, 34, 58, 91, 123,
     34, 97, 109, 111, 117, 110, 116, 34, 58, 34, 49, 48, 48, 48, 34, 44,
     34, 117, 114, 108, 34, 58, 34, 97, 99, 99, 58, 47, 47, 98, 111, 98,
     46, 97, 99, 109, 101, 47, 116, 111, 107, 101, 110, 115, 34, 125, 93, 44,
     34, 116, 121, 112, 101, 34, 58, 34, 115, 101, 110, 100, 45, 116, 111, 107,
     101, 110, 115, 34, 125, 44, 34, 104, 101, 97, 100, 101, 114, 34, 58, 123,
     34, 112, 114, 105, 110, 99, 105, 112, 97, 108, 34, 58, 34, 97, 99, 99,
     58, 47, 47, 97, 108, 105, 99, 101, 46, 97, 99, 109, 101, 47, 116, 111,
     107, 101, 110, 115, 34, 44, 34, 116, 105, 109, 101, 115, 116, 97, 109, 112,
     34, 58, 49, 50, 51, 52, 53, 54, 55, 56, 57, 48, 49, 50, 51, 125,
     125
  >>

\* C25: the end-to-end example.  dumps_canonical of the transaction with
\* header {principal: acc://alice.acme/tokens, timestamp: 1234567890123} and
\* body {type: send-tokens, to: [{url: acc://bob.acme/tokens, amount: "1000"}]},
\* its keys inserted in that order, is exactly the expected text.
C25_EndToEndExample ==
  ( /\ call.op = "dumps_canonical"
    /\ call.args[1] = test_transaction ) =>
    outcome = Return(expected_canonical)

\* C25 witness: the example transaction, header first and timestamp last, was
\* encoded.
C25_Witness ==
  /\ call.op = "dumps_canonical"
  /\ call.args[1] = test_transaction
  /\ call.args[1].entries[1].k = PyStr(Name.header)
  /\ call.args[1].entries[1].v.entries[2].v = PyLong(<<49, 50, 51, 52, 53, 54, 55, 56, 57, 48, 49, 50, 51>>)
  /\ outcome.kind = "return"

\* C26: arguments are left unchanged.  After any call of
\* hash_transaction_body, hash_transaction, hash_transaction_binary_style or
\* dumps_canonical, whether it returned or failed, the transaction and the
\* body that were passed in have the keys and values they had before: the
\* entry is removed from a copy and canonicalization builds new containers.
C26_ArgumentsUnchanged ==
  \A t \in Threads :
    ( /\ threads[t].pc = "done"
      /\ threads[t].op \in { "hash_transaction_body", "hash_transaction",
                             "hash_transaction_binary_style", "dumps_canonical" } ) =>
      /\ transaction_now = input.transaction
      /\ dict_keys(heap[BodyRef]) = dict_keys(ValueOf(input.transaction, Name.body))
      /\ \A i \in 1..Len(heap[BodyRef].entries) :
           heap[BodyRef].entries[i].v
             = dict_get(ValueOf(input.transaction, Name.body), heap[BodyRef].entries[i].k)

\* C26 witness: hash_transaction_body has returned after deleting the entry
\* from its copy, dumps_canonical has returned after building a canonical
\* dict that differs from the body, and the body still has its entry.
C26_Witness ==
  \E t, u \in Threads :
    /\ threads[t].op = "hash_transaction_body"
    /\ threads[t].pc = "done"
    /\ threads[t].result.kind = "return"
    /\ threads[t].body_copy = CopyRef(t)
    /\ ~HasKey(heap[CopyRef(t)], Name.entry)
    /\ threads[u].op = "dumps_canonical"
    /\ threads[u].pc = "done"
    /\ heap[CanonicalRef(u)] # heap[BodyRef]
    /\ HasKey(heap[BodyRef], Name.entry)

\* C27: for every key pair kp returned by from_seed_or_key, from a 32-byte
\* or a 64-byte input, every message m and every 64-byte signature s,
\* kp.verify(m, s) equals verify_signature(kp.public_key_bytes(), m, s): the
\* public key the key pair reports is the key its sign and verify work under.
C27_VerifyUnderReportedKey ==
  ( /\ keypair # NoKeyPair
    /\ input.kind = "key"
    /\ call.op = "verify"
    /\ call.args[2].t = "bytes"
    /\ Len(call.args[2].bs) = SignatureSize ) =>
    outcome = verify_signature(PyBytes(public_key_bytes(keypair)),
                               call.args[1], call.args[2])

\* what the cryptography fallback builds from an accepted input: the seed is
\* the first 32 bytes and the public key is derived from it
FallbackSeed == SubSeq(ArgBytes(input.seed_or_key), 1, SeedSize)

\* C28: backend equivalence.  For every accepted input, the key pair built
\* under PyNaCl and the one built under the cryptography fallback report the
\* same public_key_bytes(), the same private_key_bytes() and the same
\* signature for every message: under either backend each result is the one
\* the fallback gives for the input.
C28_BackendEquivalence ==
  ( /\ keypair # NoKeyPair
    /\ input.kind = "key" ) =>
    /\ call.op = "public_key_bytes" => outcome = Return(ed25519_public(FallbackSeed))
    /\ call.op = "private_key_bytes" => outcome = Return(FallbackSeed)
    /\ call.op = "sign" =>
         outcome = Return(ed25519_sign(FallbackSeed, message_bytes(call.args[1])))

\* C29: the flat strategy performs no body validation.  hash_transaction,
\* hash_for_signing and hash_for_ed25519_signing return a digest for every
\* transaction that has header and body, whatever body.type is, also for a
\* payload-carrying body with no entry or no entry data, on which
\* hash_transaction_binary_style fails; the flat digest is that of the
\* canonical encoding of the whole transaction and owes nothing to the
\* payload-separation rule.
C29_FlatHashDoesNotValidateBody ==
  /\ ( /\ call.op \in {"hash_transaction", "hash_for_signing"}
       /\ HasHeaderAndBody(call.args[1]) ) =>
       /\ outcome.kind = "return"
       /\ outcome.val = hashlib_sha256(encode_utf8(dumps_canonical(call.args[1])))
  /\ ( /\ call.op = "hash_for_ed25519_signing"
       /\ HasHeaderAndBody(call.args[2]) ) =>
       /\ outcome.kind = "return"
       /\ Len(outcome.val) = DigestSize
       /\ outcome.val =
            hashlib_sha256(hashlib_sha256(encode_utf8(dumps_canonical(call.args[1])))
                             \o hashlib_sha256(encode_utf8(dumps_canonical(call.args[2]))))

\* C29 witness: hash_for_ed25519_signing returned a digest for a transaction
\* whose body is a WriteData body without entry, which
\* hash_transaction_binary_style rejects.
C29_Witness ==
  /\ call.op = "hash_for_ed25519_signing"
  /\ HasHeaderAndBody(call.args[2])
  /\ IsPayloadBody(ValueOf(call.args[2], Name.body))
  /\ ~HasKey(ValueOf(call.args[2], Name.body), Name.entry)
  /\ hash_transaction_binary_style(call.args[2]).kind = "raise"
  /\ outcome.kind = "return"

\* C30: the two signing-hash entry points agree on every input.
\* hash_transaction_for_signing and TransactionHasher.hash_for_signing of
\* crypto.py return the 32-byte digest that hash_for_signing of
\* protocol/hashing.py returns, for every transaction, and fail on exactly
\* the transactions it fails on: those lacking header or body.
C30_SigningEntryPointsAgree ==
  call.op \in {"hash_transaction_for_signing", "TransactionHasher.hash_for_signing"} =>
    LET reference == hash_for_signing(call.args[1])
    IN  /\ (outcome.kind = "raise") <=> (reference.kind = "raise")
        /\ (outcome.kind = "raise") <=> ~HasHeaderAndBody(call.args[1])
        /\ reference.kind = "return" =>
             (outcome.kind = "return" /\ outcome.val = reference.val)

====
